---- MODULE Spec2Model ----
(***************************************************************************)
(* A model of the core of the "god" ARM64 virtual machine monitor:         *)
(*   - the PL011 UART and its level-triggered line on the in-kernel GIC    *)
(*     (src/god/devices/uart.py, src/god/devices/gic.py),                  *)
(*   - the virtqueue engine (src/god/devices/virtio/queue.py),             *)
(*   - the VMRunner lifecycle and its exit-driven run loop, with the       *)
(*     terminal scope and the SIGALRM timer of interactive mode            *)
(*     (src/god/vcpu/runner.py, src/god/vcpu/vcpu.py, src/god/terminal.py).*)
(* Each subsystem has its own specification over the shared variables; a   *)
(* specification leaves the variables of the other subsystems unchanged.   *)
(***************************************************************************)
EXTENDS Integers, Sequences, FiniteSets, TLC

VARIABLES
    \* ---- PL011UART object (uart.py)
    uart_cr, uart_lcr_h, uart_ibrd, uart_fbrd,   \* plain storage registers
    uart_imsc,            \* _imsc: interrupt mask
    uart_ris,             \* _ris: raw interrupt status
    uart_rx_buffer,       \* _rx_buffer: RX FIFO, a sequence of bytes
    uart_irq_asserted,    \* _irq_asserted
    uart_gic,             \* _gic is not None
    uart_output,          \* what was written to the output sink
    uart_read_value,      \* value returned by the last read()
    uart_op,              \* the last operation performed on the UART
    uart_calls,           \* levels passed to gic.inject_irq by the last operation
    \* ---- GIC object (gic.py) and what the host saw on the UART line
    gic_present,          \* runner._gic is not None
    gic_created,          \* _created
    gic_finalized,        \* _finalized
    gic_init_issued,      \* the CTRL_INIT attribute was passed to the host
    gic_init_vcpus,       \* number of vCPUs that existed when INIT was issued
    gic_line,             \* level of the last KVM_IRQ_LINE on the UART IRQ
    \* ---- Virtqueue object and the guest memory it works on (queue.py)
    vq_num,               \* num: queue size written by the guest
    vq_desc,              \* guest memory of the descriptor table and beyond
    vq_used_idx,          \* guest memory: used.idx (u16)
    vq_used_ring,         \* guest memory: used.ring[slot] = [id, len]
    vq_start,             \* used.idx when the observation starts
    pu_pc,                \* position inside put_used
    pu_id, pu_len,        \* put_used arguments desc_head, bytes_written
    pu_used_idx,          \* put_used local used_idx
    pu_log,               \* the [id, len] pairs passed to put_used, in order
    fc_pc,                \* position inside follow_chain
    fc_idx,               \* follow_chain local idx
    fc_chain,             \* follow_chain local chain (descriptor indices)
    fc_visited,           \* follow_chain local visited
    fc_head,              \* follow_chain argument head
    fc_reads,             \* descriptor indices whose memory was read
    fc_error,             \* the ValueError raised, or "none"
    \* ---- VMRunner, its first vCPU's exit region, terminal and signals
    dev_uart,             \* a PL011UART is in the runner's device registry
    rn_uart,              \* runner._uart is not None
    rn_vcpus,             \* len(runner._vcpus)
    rn_runs,              \* run() calls made so far
    rn_pc,                \* position inside run() / _run_loop()
    rn_interactive,       \* run() argument interactive
    rn_quiet,             \* run() argument quiet
    rn_max_exits,         \* run() argument max_exits
    rn_i,                 \* _run_loop local i
    rn_exit_reason,       \* _run_loop local exit_reason
    rn_exc,               \* the exception in flight, or "none"
    rn_result,            \* how the last API call ended
    rn_step,              \* the last step taken
    rn_saved_handler,     \* run() local original_handler
    rn_attrs_before,      \* the terminal's attributes when run() was called
    rn_dumped,            \* the last step called vcpu.dump_registers()
    st_exits,             \* stats["exits"]
    st_hlt,               \* stats["hlt"]
    st_exit_reason,       \* stats["exit_reason"]
    st_exit_counts,       \* stats["exit_counts"]: exit name -> count (0: no key)
    kvm_mmio,             \* exit region: phys_addr, data[8], len, is_write
    mm_open,              \* an MMIO exit awaits the next KVM_RUN
    mm_at_exit,           \* the exit region as the MMIO exit delivered it
    mm_result,            \* MMIOResult (data, handled) of the dispatch, or << >>
    mm_dev_value,         \* value a device received from the write, or NotYet
    term_attrs,           \* the terminal's attributes: "orig" or "raw"
    tm_in_raw_mode,       \* TerminalMode._in_raw_mode
    tm_original_attrs,    \* TerminalMode._original_attrs
    sig_handler,          \* the installed SIGALRM handler
    sig_timer,            \* ITIMER_REAL: "off", "interval" or "alarm"
    stdin_buf,            \* bytes readable on stdin
    \* ---- VirtioMMIODevice / VirtioConsole object (virtio/mmio.py, console.py)
    vm_status,            \* _status
    vm_interrupt_status,  \* _interrupt_status
    vm_device_features_sel,  \* _device_features_sel
    vm_driver_features_sel,  \* _driver_features_sel
    vm_driver_features,   \* _driver_features, as its two 32-bit words
    vm_queue_sel,         \* _queue_sel
    vm_queues,            \* _queues: index -> the Virtqueue's fields
    vm_irq_calls,         \* calls of _irq_callback made by the last operation
    vm_op,                \* the last operation performed on the device
    vm_read_value,        \* value returned by the last read()
    vm_ops,               \* register accesses made so far
    vc_input_buffer,      \* VirtioConsole._input_buffer
    vc_output,            \* the pieces passed to _output_callback, in order
    vc_pc,                \* position inside _process_tx_queue / _process_rx_queue
    vc_error,             \* the exception that left the last operation, or "none"
    vc_iters,             \* loop iterations made by the operation in progress
    vc_loop,              \* the run loop that dispatched the access goes on
    gm_desc,              \* guest memory: queue -> descriptor table
    gm_avail_idx,         \* guest memory: queue -> avail.idx (u16)
    gm_avail_ring,        \* guest memory: queue -> avail.ring
    gm_used_idx,          \* guest memory: queue -> used.idx (u16)
    gm_used_ring,         \* guest memory: queue -> used.ring
    gm_buffers,           \* the writes the last RX iteration made to guest buffers
    gh_published,         \* heads the guest published since the start, in order
    gh_sent,              \* all bytes passed to send_input, in order
    gh_used_log,          \* the [id, len, data] of every put_used, in order
    \* ---- DeviceRegistry object (registry.py)
    reg_devices,          \* _devices: the regions registered, in order
    reg_result,           \* how the last register() call ended, and its device
    \* ---- MemoryManager object (vm/memory.py) and the host's address space
    mem_slots,            \* _slots: the registered slots, in slot_id order
    mem_next_slot_id,     \* _next_slot_id
    mem_maps,             \* host mappings made by mmap and not unmapped
    mem_store,            \* host address -> byte, for the bytes written
    mem_foreign,          \* host memory outside every mapping was written
    mem_op,               \* the last operation and its arguments
    mem_result,           \* how it ended, and what it returned
    mem_ops,              \* operations made so far
    \* ---- one call of boot_linux (cli.py) and the host resources it holds
    bl_pc,                \* position inside boot_linux
    bl_args,              \* the options of the call
    bl_exc,               \* the exception in flight, or "none"
    bl_open,              \* host resources held: descriptors, mappings, slots
    bl_log,               \* the resources released so far, in order
    \* ---- one call of KernelImage.load (boot/kernel.py)
    kh_fields,            \* the fields the image file was built from
    kh_data,              \* the bytes of the image file
    kh_result,            \* how load ended, and the fields of the KernelImage
    \* ---- one call of BootLoader.load (boot/loader.py)
    ld_args,              \* the kernel, the initrd and dtb given, the RAM size
    ld_writes,            \* the memory.write calls made: << address, length >>
    ld_result,            \* how load ended, and the BootInfo returned
    \* ---- one direct call of GIC.inject_irq (devices/gic.py)
    gi_args,              \* the irq and level passed
    gi_requests,          \* the kvm_irq_level structs passed to KVM_IRQ_LINE
    gi_result,            \* how the call ended
    \* ---- direct calls of Virtqueue.get_next_request (virtio/queue.py)
    gq_returned,         \* the heads get_next_request returned, in order
    gq_result,           \* what the last call returned or raised
    gq_calls             \* calls made so far

uartVars == << uart_cr, uart_lcr_h, uart_ibrd, uart_fbrd, uart_imsc, uart_ris,
               uart_rx_buffer, uart_irq_asserted, uart_gic, uart_output,
               uart_read_value, uart_op, uart_calls >>
gicVars == << gic_present, gic_created, gic_finalized, gic_init_issued,
              gic_init_vcpus, gic_line >>

usedVars == << vq_used_idx, vq_used_ring, vq_start, pu_pc, pu_id, pu_len,
               pu_used_idx, pu_log >>
chainVars == << vq_desc, fc_pc, fc_idx, fc_chain, fc_visited, fc_head, fc_reads,
               fc_error >>
vqVars == << vq_num, usedVars, chainVars >>

runVars == << dev_uart, rn_uart, rn_vcpus, rn_runs, rn_pc, rn_interactive,
             rn_quiet, rn_max_exits, rn_i, rn_exit_reason, rn_exc, rn_result,
             rn_step, rn_saved_handler, rn_attrs_before, rn_dumped, st_exits, st_hlt,
             st_exit_reason, st_exit_counts, kvm_mmio, mm_open, mm_at_exit, mm_result,
             mm_dev_value, term_attrs, tm_in_raw_mode, tm_original_attrs,
             sig_handler, sig_timer, stdin_buf >>

vmVars == << vm_status, vm_interrupt_status, vm_device_features_sel,
            vm_driver_features_sel, vm_driver_features, vm_queue_sel, vm_queues,
            vm_irq_calls, vm_op, vm_read_value, vm_ops >>
vcVars == << vc_input_buffer, vc_output, vc_pc, vc_error, vc_iters, vc_loop >>
gmVars == << gm_desc, gm_avail_idx, gm_avail_ring, gm_used_idx, gm_used_ring,
            gm_buffers, gh_published, gh_sent, gh_used_log >>
regVars == << reg_devices, reg_result >>
vioVars == << vmVars, vcVars, gmVars, regVars >>
memVars == << mem_slots, mem_next_slot_id, mem_maps, mem_store, mem_foreign,
             mem_op, mem_result, mem_ops >>
blVars == << bl_pc, bl_args, bl_exc, bl_open, bl_log >>
khVars == << kh_fields, kh_data, kh_result >>
ldVars == << ld_args, ld_writes, ld_result >>
giVars == << gi_args, gi_requests, gi_result >>
gqVars == << gq_returned, gq_result, gq_calls >>
auxVars == << memVars, blVars, khVars, ldVars, giVars,
             gqVars >>
devVars == << vqVars, vioVars, auxVars >>

vars == << uartVars, gicVars, vqVars, runVars, vioVars, auxVars >>

\* A memory manager without slots (MemoryManager.__init__).
MemIdle ==
    /\ mem_slots = << >>
    /\ mem_next_slot_id = 0
    /\ mem_maps = {}
    /\ mem_store = << >>
    /\ mem_foreign = FALSE
    /\ mem_op = << "init" >>
    /\ mem_result = << "none" >>
    /\ mem_ops = 0

\* boot_linux not called.
BlIdle ==
    /\ bl_pc = "idle"
    /\ bl_args = << >>
    /\ bl_exc = "none"
    /\ bl_open = {}
    /\ bl_log = << >>

\* No kernel image loaded.
KhIdle ==
    /\ kh_fields = << >>
    /\ kh_data = << >>
    /\ kh_result = << "none" >>

\* BootLoader.load not called.
LdIdle ==
    /\ ld_args = << >>
    /\ ld_writes = << >>
    /\ ld_result = << "none" >>

\* GIC.inject_irq not called directly.
GiIdle ==
    /\ gi_args = << >>
    /\ gi_requests = << >>
    /\ gi_result = "none"

\* get_next_request not called directly.
GqIdle ==
    /\ gq_returned = << >>
    /\ gq_result = << "none" >>
    /\ gq_calls = 0

\* The parts of the program a specification does not exercise.
AuxIdle ==
    /\ MemIdle
    /\ BlIdle
    /\ KhIdle
    /\ LdIdle
    /\ GiIdle
    /\ GqIdle

(***************************************************************************)
(* Bit operations on naturals (Python's &, |, & ~ on non-negative ints).   *)
(***************************************************************************)
RECURSIVE BitAnd(_, _)
BitAnd(a, b) ==
    IF a = 0 \/ b = 0 THEN 0
    ELSE (a % 2) * (b % 2) + 2 * BitAnd(a \div 2, b \div 2)

BitOr(a, b) == a + b - BitAnd(a, b)

BitAndNot(a, b) == a - BitAnd(a, b)

(***************************************************************************)
(* PL011 register offsets and interrupt bits.                              *)
(***************************************************************************)
DR == 0
RSR == 4
FR == 24
IBRD == 36
FBRD == 40
LCR_H == 44
CR == 48
IMSC == 56
RIS == 60
MIS == 64
ICR == 68
FR_TXFE == 128
FR_RXFE == 16
INT_RX == 16
UART_IRQ == 33

\* Bounds of the UART model.
MaxRx == 3          \* longest RX FIFO explored
MaxInject == 3      \* longest data passed to one inject_input
MaxOut == 1         \* longest output kept in the sink

RxBytes == {97, 98}
\* Values a guest writes to IMSC / ICR: nothing, RX, TX, RX|TX.
MaskVals == {0, 16, 32, 48}
PlainVals == {0, 1}
PlainRegs == {CR, LCR_H, IBRD, FBRD}
ReadOffsets == {DR, FR, RSR, CR, LCR_H, IBRD, FBRD, IMSC, RIS, MIS, ICR}

SeqsUpTo(S, n) == UNION { [1..k -> S] : k \in 0..n }

(***************************************************************************)
(* PL011UART._update_irq_line: the edge to drive for a given RIS and IMSC. *)
(* The result names the new _irq_asserted, the inject_irq calls made, and  *)
(* whether gic.inject_irq raised (GIC not finalized).                      *)
(***************************************************************************)
update_irq_line_always(ris, imsc) ==
    LET mis == BitAnd(ris, imsc) IN
    IF ~uart_gic THEN [asserted |-> uart_irq_asserted, calls |-> << >>, raised |-> FALSE]
    ELSE IF ~gic_finalized
    THEN [asserted |-> uart_irq_asserted, calls |-> << >>, raised |-> mis # 0]
    ELSE [asserted |-> mis # 0, calls |-> << (mis # 0) >>, raised |-> FALSE]

update_irq_line(ris, imsc) ==
    LET mis == BitAnd(ris, imsc) IN
    IF ~uart_gic
    THEN [asserted |-> uart_irq_asserted, calls |-> << >>, raised |-> FALSE]
    ELSE IF mis # 0 /\ ~uart_irq_asserted
    THEN IF gic_finalized
         THEN [asserted |-> TRUE, calls |-> << TRUE >>, raised |-> FALSE]
         ELSE [asserted |-> uart_irq_asserted, calls |-> << >>, raised |-> TRUE]
    ELSE IF mis = 0 /\ uart_irq_asserted
    THEN IF gic_finalized
         THEN [asserted |-> FALSE, calls |-> << FALSE >>, raised |-> FALSE]
         ELSE [asserted |-> uart_irq_asserted, calls |-> << >>, raised |-> TRUE]
    ELSE [asserted |-> uart_irq_asserted, calls |-> << >>, raised |-> FALSE]

\* The host's view of the line after the calls of one operation.
LineAfter(calls) ==
    IF calls = << >> THEN gic_line
    ELSE IF calls[Len(calls)] THEN "assert" ELSE "deassert"

\* The effect of _update_irq_line on the UART flag and on the host.
DriveLine(ris, imsc) ==
    LET r == update_irq_line(ris, imsc) IN
    /\ uart_irq_asserted' = r.asserted
    /\ uart_calls' = r.calls
    /\ gic_line' = LineAfter(r.calls)

NoLineChange ==
    /\ uart_irq_asserted' = uart_irq_asserted
    /\ uart_calls' = << >>
    /\ gic_line' = gic_line

(***************************************************************************)
(* PL011UART._update_rx_interrupt: RIS after a DR read left `rest`.        *)
(***************************************************************************)
update_rx_interrupt_keep(rest) == BitOr(uart_ris, INT_RX)

update_rx_interrupt(rest) ==
    IF rest # << >> THEN BitOr(uart_ris, INT_RX) ELSE BitAndNot(uart_ris, INT_RX)

(***************************************************************************)
(* PL011UART.read(offset, size): the value returned.                       *)
(***************************************************************************)
uart_read_result(offset) ==
    CASE offset = DR -> IF uart_rx_buffer # << >> THEN Head(uart_rx_buffer) ELSE 0
      [] offset = FR -> FR_TXFE + (IF uart_rx_buffer = << >> THEN FR_RXFE ELSE 0)
      [] offset = RSR -> 0
      [] offset = CR -> uart_cr
      [] offset = LCR_H -> uart_lcr_h
      [] offset = IBRD -> uart_ibrd
      [] offset = FBRD -> uart_fbrd
      [] offset = IMSC -> uart_imsc
      [] offset = RIS -> uart_ris
      [] offset = MIS -> BitAnd(uart_ris, uart_imsc)
      [] OTHER -> 0

\* PL011UART.read(offset, size): the state change (only a DR read of a
\* non-empty FIFO changes anything).
uart_read(offset) ==
    /\ uart_read_value' = uart_read_result(offset)
    /\ uart_op' = IF offset = DR THEN "read_dr" ELSE "read"
    /\ IF offset = DR /\ uart_rx_buffer # << >>
       THEN LET rest == Tail(uart_rx_buffer)
                ris == update_rx_interrupt(rest) IN
            /\ uart_rx_buffer' = rest
            /\ uart_ris' = ris
            /\ DriveLine(ris, uart_imsc)
       ELSE /\ UNCHANGED << uart_rx_buffer, uart_ris >>
            /\ NoLineChange
    /\ UNCHANGED << uart_cr, uart_lcr_h, uart_ibrd, uart_fbrd, uart_imsc,
                    uart_gic, uart_output >>
    /\ UNCHANGED << gic_present, gic_created, gic_finalized, gic_init_issued,
                    gic_init_vcpus >>

(***************************************************************************)
(* PL011UART.write(offset, size, value).                                   *)
(***************************************************************************)
Sink(out, ch) == IF Len(out) < MaxOut THEN Append(out, ch) ELSE out

uart_write(offset, value) ==
    /\ uart_op' = CASE offset = IMSC -> "write_imsc"
                    [] offset = ICR -> "write_icr"
                    [] OTHER -> "write"
    /\ uart_cr' = IF offset = CR THEN value ELSE uart_cr
    /\ uart_lcr_h' = IF offset = LCR_H THEN value ELSE uart_lcr_h
    /\ uart_ibrd' = IF offset = IBRD THEN value ELSE uart_ibrd
    /\ uart_fbrd' = IF offset = FBRD THEN value ELSE uart_fbrd
    /\ uart_output' = IF offset = DR THEN Sink(uart_output, value % 256) ELSE uart_output
    /\ uart_imsc' = IF offset = IMSC THEN value ELSE uart_imsc
    /\ uart_ris' = IF offset = ICR THEN BitAndNot(uart_ris, value) ELSE uart_ris
    /\ IF offset = IMSC THEN DriveLine(uart_ris, value)
       ELSE IF offset = ICR THEN DriveLine(BitAndNot(uart_ris, value), uart_imsc)
       ELSE NoLineChange
    /\ UNCHANGED << uart_rx_buffer, uart_gic, uart_read_value >>
    /\ UNCHANGED << gic_present, gic_created, gic_finalized, gic_init_issued,
                    gic_init_vcpus >>

(***************************************************************************)
(* PL011UART.inject_input(data).                                           *)
(***************************************************************************)
inject_input(data) ==
    LET ris == BitOr(uart_ris, INT_RX) IN
    /\ uart_op' = "inject"
    /\ uart_rx_buffer' = uart_rx_buffer \o data
    /\ uart_ris' = ris
    /\ DriveLine(ris, uart_imsc)
    /\ UNCHANGED << uart_cr, uart_lcr_h, uart_ibrd, uart_fbrd, uart_imsc,
                    uart_gic, uart_output, uart_read_value >>
    /\ UNCHANGED << gic_present, gic_created, gic_finalized, gic_init_issued,
                    gic_init_vcpus >>

(***************************************************************************)
(* PL011UART.reset(): clears the registers, the FIFO and _irq_asserted;    *)
(* it makes no call on the GIC.                                            *)
(***************************************************************************)
uart_reset ==
    /\ uart_op' = "reset"
    /\ uart_cr' = 0
    /\ uart_lcr_h' = 0
    /\ uart_ibrd' = 0
    /\ uart_fbrd' = 0
    /\ uart_imsc' = 0
    /\ uart_ris' = 0
    /\ uart_rx_buffer' = << >>
    /\ uart_irq_asserted' = FALSE
    /\ uart_calls' = << >>
    /\ UNCHANGED << uart_gic, uart_output, uart_read_value >>
    /\ UNCHANGED gicVars

\* PL011UART.__init__ (with the GIC attached and finalized, or no GIC).
UartInit(attached) ==
    /\ uart_cr = 0
    /\ uart_lcr_h = 0
    /\ uart_ibrd = 0
    /\ uart_fbrd = 0
    /\ uart_imsc = 0
    /\ uart_ris = 0
    /\ uart_rx_buffer = << >>
    /\ uart_irq_asserted = FALSE
    /\ uart_gic = attached
    /\ uart_output = << >>
    /\ uart_read_value = 0
    /\ uart_op = "init"
    /\ uart_calls = << >>

\* GIC.__init__ followed, as told, by create() and by finalize().
GicInit(present, created, fin) ==
    /\ gic_present = present
    /\ gic_created = created
    /\ gic_finalized = fin
    /\ gic_init_issued = fin
    /\ gic_init_vcpus = IF fin THEN 1 ELSE 0
    /\ gic_line = "none"

(***************************************************************************)
(* Specification of the UART as a device object: every public operation,   *)
(* in any order.                                                           *)
(***************************************************************************)
\* What a UART operation leaves alone outside the UART and the GIC.
UartFrame == UNCHANGED << devVars, runVars >>

UartRead == UartFrame /\ \E offset \in ReadOffsets : uart_read(offset)

UartWritePlain ==
    UartFrame /\ \E offset \in PlainRegs \cup {RSR}, v \in PlainVals : uart_write(offset, v)

OutBytes == {104}

UartWriteDR == UartFrame /\ \E v \in OutBytes : uart_write(DR, v)

UartWriteIMSC == UartFrame /\ \E v \in MaskVals : uart_write(IMSC, v)

UartWriteICR == UartFrame /\ \E v \in MaskVals : uart_write(ICR, v)

UartInjectOne ==
    /\ UartFrame
    /\ \E data \in SeqsUpTo(RxBytes, MaxInject) :
        /\ data # << >>
        /\ Len(uart_rx_buffer) + Len(data) <= MaxRx
        /\ inject_input(data)

UartInjectEmpty == UartFrame /\ inject_input(<< >>)

UartReset == UartFrame /\ uart_reset

UartOps ==
    \/ UartRead
    \/ UartWriteDR
    \/ UartWriteIMSC
    \/ UartWriteICR
    \/ UartInjectOne


(***************************************************************************)
(* Virtqueue (queue.py).                                                   *)
(***************************************************************************)
VIRTQ_DESC_F_NEXT == 1
U16 == 65536

\* Bounds of the virtqueue model.
MaxNum == 2         \* largest queue size explored
MaxPuts == 3        \* put_used calls explored in one behaviour

\* Guest memory holds descriptor-sized records past the end of the table.
DescSlots == 0..MaxNum
FlagVals == {0, VIRTQ_DESC_F_NEXT}
Descs == [flags : FlagVals, next : DescSlots]

\* A descriptor taken for the last of its chain whatever its flags.
is_chained_never(desc) == FALSE

\* VirtqDesc.is_chained
is_chained(desc) == BitAnd(desc.flags, VIRTQ_DESC_F_NEXT) # 0

\* Virtqueue.read_descriptor: the bounds check made before memory is read.
read_descriptor_unchecked(index) == TRUE

read_descriptor_ok(index) == ~(index >= vq_num)

\* Virtqueue.follow_chain(head): entry.
follow_chain_call(head) ==
    /\ fc_pc \in {"idle", "done", "error"}
    /\ fc_pc' = "loop"
    /\ fc_idx' = head
    /\ fc_chain' = << >>
    /\ fc_visited' = {}
    /\ fc_head' = head
    /\ fc_reads' = {}
    /\ fc_error' = "none"
    /\ UNCHANGED << vq_desc, vq_num, usedVars >>

\* Virtqueue.follow_chain: one iteration of the while loop.
follow_chain_step ==
    /\ fc_pc = "loop"
    /\ IF fc_idx \in fc_visited
       THEN /\ fc_pc' = "error"
            /\ fc_error' = "cycle"
            /\ UNCHANGED << fc_idx, fc_chain, fc_visited, fc_reads >>
       ELSE IF Len(fc_chain) > vq_num
       THEN /\ fc_pc' = "error"
            /\ fc_error' = "too long"
            /\ UNCHANGED << fc_idx, fc_chain, fc_visited, fc_reads >>
       ELSE /\ fc_visited' = fc_visited \cup {fc_idx}
            /\ IF ~read_descriptor_ok(fc_idx)
               THEN /\ fc_pc' = "error"
                    /\ fc_error' = "index"
                    /\ UNCHANGED << fc_idx, fc_chain, fc_reads >>
               ELSE /\ fc_reads' = fc_reads \cup {fc_idx}
                    /\ fc_chain' = Append(fc_chain, fc_idx)
                    /\ fc_error' = "none"
                    /\ IF is_chained(vq_desc[fc_idx])
                       THEN /\ fc_idx' = vq_desc[fc_idx].next
                            /\ fc_pc' = "loop"
                       ELSE /\ fc_idx' = fc_idx
                            /\ fc_pc' = "done"
    /\ UNCHANGED << vq_desc, vq_num, fc_head, usedVars >>

\* Virtqueue._set_used_idx: the value stored in used.idx.
set_used_idx(value) == value % U16

\* Virtqueue.put_used: the order of its three stores.
put_used_order_idx_first == << "w_idx", "w_id", "w_len" >>

put_used_order == << "w_id", "w_len", "w_idx" >>

pu_after(pc) ==
    LET i == CHOOSE j \in 1..3 : put_used_order[j] = pc IN
    IF i = 3 THEN "idle" ELSE put_used_order[i + 1]

\* Virtqueue.put_used(desc_head, bytes_written): reads used.idx and computes
\* the ring index (a ZeroDivisionError when num is 0).
put_used_call(desc_head, bytes_written) ==
    /\ pu_pc = "idle"
    /\ Len(pu_log) < MaxPuts
    /\ pu_id' = desc_head
    /\ pu_len' = bytes_written
    /\ pu_used_idx' = vq_used_idx
    /\ IF vq_num = 0
       THEN /\ pu_pc' = "error"
            /\ pu_log' = pu_log
       ELSE /\ pu_pc' = put_used_order[1]
            /\ pu_log' = Append(pu_log, [id |-> desc_head, len |-> bytes_written])
    /\ UNCHANGED << vq_used_idx, vq_used_ring, vq_start, vq_num, chainVars >>

\* Virtqueue._write_used_ring_entry: the store of the id word.
put_used_write_id ==
    /\ pu_pc = "w_id"
    /\ vq_used_ring' = [vq_used_ring EXCEPT ![pu_used_idx % vq_num].id = pu_id]
    /\ pu_pc' = pu_after("w_id")
    /\ UNCHANGED << vq_used_idx, vq_start, pu_id, pu_len, pu_used_idx, pu_log,
                    vq_num, chainVars >>

\* Virtqueue._write_used_ring_entry: the store of the len word.
put_used_write_len ==
    /\ pu_pc = "w_len"
    /\ vq_used_ring' = [vq_used_ring EXCEPT ![pu_used_idx % vq_num].len = pu_len]
    /\ pu_pc' = pu_after("w_len")
    /\ UNCHANGED << vq_used_idx, vq_start, pu_id, pu_len, pu_used_idx, pu_log,
                    vq_num, chainVars >>

\* Virtqueue.put_used: the store that publishes, _set_used_idx(used_idx + 1).
put_used_write_idx ==
    /\ pu_pc = "w_idx"
    /\ vq_used_idx' = set_used_idx(pu_used_idx + 1)
    /\ pu_pc' = pu_after("w_idx")
    /\ UNCHANGED << vq_used_ring, vq_start, pu_id, pu_len, pu_used_idx, pu_log,
                    vq_num, chainVars >>

PutIds == {0, 1}
PutLens == {0, 7}
ZeroEntry == [id |-> 0, len |-> 0]

\* The used ring of a queue of size n on which `start` completions of
\* [0, 0] (zero-length TX buffers at head 0) have been published.
UsedInit(start) ==
    /\ vq_used_idx = start
    /\ vq_start = start
    /\ vq_used_ring = [slot \in 0..(MaxNum - 1) |-> ZeroEntry]
    /\ pu_pc = "idle"
    /\ pu_id = 0
    /\ pu_len = 0
    /\ pu_used_idx = 0
    /\ pu_log = << >>

ChainInit(table) ==
    /\ vq_desc = table
    /\ fc_pc = "idle"
    /\ fc_idx = 0
    /\ fc_chain = << >>
    /\ fc_visited = {}
    /\ fc_head = 0
    /\ fc_reads = {}
    /\ fc_error = "none"

\* Virtqueue.__init__
VqIdle ==
    /\ vq_num = 0
    /\ UsedInit(0)
    /\ ChainInit([i \in DescSlots |-> [flags |-> 0, next |-> 0]])

UartIdle == UartInit(FALSE) /\ GicInit(FALSE, FALSE, FALSE)

(***************************************************************************)
(* VMRunner (runner.py), the vCPU's exit region (vcpu.py), the device      *)
(* registry (registry.py), the terminal scope (terminal.py) and SIGALRM.   *)
(***************************************************************************)
KVM_EXIT_HLT == 5
KVM_EXIT_MMIO == 6
KVM_EXIT_SHUTDOWN == 8
KVM_EXIT_FAIL_ENTRY == 9
KVM_EXIT_INTERNAL_ERROR == 17
KVM_EXIT_SYSTEM_EVENT == 24
UART_BASE == 150994944
UART_SIZE == 4096
VIRTIO_BASE == 167772160

\* Bounds of the runner model.
MaxVcpus == 2       \* vCPUs created in one behaviour
MaxRuns == 2        \* run() calls in one behaviour
MaxExits == 2       \* largest max_exits passed to run()
MaxStdin == 1       \* bytes waiting on stdin

\* The exits the host delivers; SHUTDOWN stands for the exits the loop has
\* no branch for.
ExitReasons == {KVM_EXIT_HLT, KVM_EXIT_MMIO, KVM_EXIT_SHUTDOWN, KVM_EXIT_FAIL_ENTRY,
                KVM_EXIT_INTERNAL_ERROR, KVM_EXIT_SYSTEM_EVENT}

\* The exits _run_loop has a branch for.
HandledExits == {KVM_EXIT_HLT, KVM_EXIT_MMIO, KVM_EXIT_SYSTEM_EVENT,
                 KVM_EXIT_INTERNAL_ERROR, KVM_EXIT_FAIL_ENTRY}

\* errno of a failed KVM_RUN: 0 (no failure), EINTR, EFAULT.
EINTR == 4
EFAULT == 14
HostErrnos == {0, EINTR, EFAULT}

\* VCPU.get_exit_reason_name
get_exit_reason_name(r) ==
    CASE r = KVM_EXIT_HLT -> "HLT"
      [] r = KVM_EXIT_MMIO -> "MMIO"
      [] r = KVM_EXIT_SHUTDOWN -> "SHUTDOWN"
      [] r = KVM_EXIT_FAIL_ENTRY -> "FAIL_ENTRY"
      [] r = KVM_EXIT_INTERNAL_ERROR -> "INTERNAL_ERROR"
      [] r = KVM_EXIT_SYSTEM_EVENT -> "SYSTEM_EVENT"
      [] OTHER -> "UNKNOWN"

\* stats["exit_counts"] = {}: no exit name has a count yet.
ExitNames == { get_exit_reason_name(r) : r \in ExitReasons \cup {-1} }
NoExitCounts == [n \in ExitNames |-> 0]

\* VCPU.run: -1 when KVM_RUN failed with EINTR, else the exit reason.
run_returns(errno, outcome) == IF errno = EINTR THEN -1 ELSE outcome

\* Every value vcpu.run() returns taken for an exit.
is_exit_always(exit_reason) == TRUE

\* _run_loop: "if exit_reason == -1: continue".
is_exit(exit_reason) == exit_reason # -1

\* A count that forgets the exits counted before under the same name.
count_exit_once(counts, name) == [counts EXCEPT ![name] = 1]

\* exit_counts[exit_name] = exit_counts.get(exit_name, 0) + 1
count_exit(counts, name) == [counts EXCEPT ![name] = @ + 1]

\* The MMIO exits the guest causes: an access of 1 or 2 bytes to the UART's
\* CR or to an address no device claims; a write carries 0x301 (UARTEN |
\* TXE | RXE), a read finds the data bytes as the last exit left them.
Zero8 == << 0, 0, 0, 0, 0, 0, 0, 0 >>
MmioData == { << 1, 3, 0, 0, 0, 0, 0, 0 >> }
MmioAddrs == { UART_BASE + CR, VIRTIO_BASE }
MmioLens == {1, 2}
MmioExits(stale) ==
    [phys_addr : MmioAddrs, data : MmioData, len : MmioLens, is_write : {TRUE}]
        \cup [phys_addr : MmioAddrs, data : {stale}, len : MmioLens, is_write : {FALSE}]

\* int.from_bytes(b, "little")
RECURSIVE from_bytes_little(_)
from_bytes_little(b) ==
    IF b = << >> THEN 0 ELSE Head(b) + 256 * from_bytes_little(Tail(b))

\* v >> (8 * k)
RECURSIVE shr8(_, _)
shr8(v, k) == IF k = 0 THEN v ELSE shr8(v \div 256, k - 1)

\* int.to_bytes(n, "little") raises OverflowError unless the value fits.
to_bytes_fits(v, n) == shr8(v, n) = 0

to_bytes_little(v, n) == [i \in 1..n |-> shr8(v, i - 1) % 256]

\* VCPU.get_mmio_info: the data bytes handed to the runner, data[:length].
get_mmio_data(m) == SubSeq(m.data, 1, m.len)

\* VCPU.set_mmio_data: the exit region's data after writing `bytes` at 0.
set_mmio_data(data, bytes) ==
    [i \in 1..8 |-> IF i <= Len(bytes) THEN bytes[i] ELSE data[i]]

\* A lookup that hands every address to the registered device.
find_device_any_address(address) == IF dev_uart THEN "uart" ELSE "none"

\* DeviceRegistry.find_device / Device.contains
find_device(address) ==
    IF dev_uart /\ address >= UART_BASE /\ address < UART_BASE + UART_SIZE
    THEN "uart" ELSE "none"

\* GIC.finalize as called with n vCPUs in existence: its outcome and effect.
gic_finalize_result == IF ~gic_finalized /\ ~gic_created THEN "GICError" ELSE "ok"

gic_finalize ==
    /\ IF gic_finalized \/ ~gic_created
       THEN UNCHANGED << gic_finalized, gic_init_issued, gic_init_vcpus >>
       ELSE /\ gic_finalized' = TRUE
            /\ gic_init_issued' = TRUE
            /\ gic_init_vcpus' = rn_vcpus
    /\ UNCHANGED << gic_present, gic_created, gic_line >>

rnParams == << rn_interactive, rn_quiet, rn_max_exits, rn_saved_handler,
              rn_attrs_before >>
statVars == << st_exits, st_hlt, st_exit_reason, st_exit_counts >>
mmVars == << kvm_mmio, mm_open, mm_at_exit, mm_result, mm_dev_value >>
termVars == << term_attrs, tm_in_raw_mode, tm_original_attrs >>
sigVars == << sig_handler, sig_timer >>
cfgVars == << dev_uart, rn_uart >>

\* run() takes the interactive branch (runner.py, `interactive and
\* self._uart is not None`); _run_loop then gets a terminal.
InteractiveMode == rn_interactive /\ rn_uart

\* How run() is left from inside _run_loop with exception `exc` ("none": a
\* normal return): through TerminalMode.__exit__ and the finally block.
LoopLeaves(exc) ==
    IF InteractiveMode
    THEN /\ rn_pc' = "term_exit"
         /\ rn_exc' = exc
         /\ rn_result' = rn_result
    ELSE IF ~rn_quiet
    THEN /\ rn_pc' = "n_finally"
         /\ rn_exc' = exc
         /\ rn_result' = rn_result
    ELSE /\ rn_pc' = "idle"
         /\ rn_exc' = "none"
         /\ rn_result' = IF exc = "none" THEN "returned" ELSE exc

\* The arguments and locals of run() and _run_loop(): kept while run() is
\* in progress, gone (back to their initial values) once it has ended.
KeepLocals ==
    IF rn_pc' = "idle"
    THEN /\ rn_i' = 0
         /\ rn_exit_reason' = 0
         /\ rn_interactive' = FALSE
         /\ rn_quiet' = FALSE
         /\ rn_max_exits' = 0
         /\ rn_saved_handler' = "orig"
         /\ rn_attrs_before' = "orig"
    ELSE UNCHANGED << rn_i, rn_exit_reason, rnParams >>

\* VMRunner.create_vcpu(): VCPU(...) asks the host for a vCPU; the host
\* grants it or refuses.
create_vcpu(granted) ==
    /\ rn_pc = "idle"
    /\ rn_vcpus < MaxVcpus
    /\ rn_step' = "create_vcpu"
    /\ rn_dumped' = FALSE
    /\ rn_vcpus' = IF granted THEN rn_vcpus + 1 ELSE rn_vcpus
    /\ rn_result' = IF granted THEN "ok" ELSE "VCPUError"
    /\ UNCHANGED << cfgVars, rn_runs, rn_pc, rnParams, rn_i, rn_exit_reason, rn_exc,
                    statVars, mmVars, termVars, sigVars, stdin_buf >>
    /\ UNCHANGED << uartVars, gicVars, devVars >>

\* runner.devices.register(PL011UART()) by the embedding program after the
\* runner was constructed: DeviceRegistry.register only appends the device;
\* _setup_uart_gic_link ran in __init__ and is not run again.
register_uart ==
    /\ rn_pc = "idle"
    /\ ~dev_uart
    /\ dev_uart' = TRUE
    /\ rn_step' = "register"
    /\ rn_dumped' = FALSE
    /\ UNCHANGED << rn_uart, rn_vcpus, rn_runs, rn_pc, rnParams, rn_i, rn_exit_reason,
                    rn_exc, rn_result, statVars, mmVars, termVars, sigVars, stdin_buf >>
    /\ UNCHANGED << uartVars, gicVars, devVars >>

\* GIC.finalize() called on runner.gic by the embedding program.
gic_finalize_call ==
    /\ rn_pc = "idle"
    /\ gic_present
    /\ rn_step' = "gic_finalize"
    /\ rn_dumped' = FALSE
    /\ rn_result' = gic_finalize_result
    /\ gic_finalize
    /\ UNCHANGED << cfgVars, rn_vcpus, rn_runs, rn_pc, rnParams, rn_i, rn_exit_reason,
                    rn_exc, statVars, mmVars, termVars, sigVars, stdin_buf >>
    /\ UNCHANGED << uartVars, devVars >>

\* VMRunner.run(max_exits, quiet, interactive) up to the point where the
\* timer is armed: the vCPU check, the GIC finalize, the handler and timer.
run_call(max_exits, quiet, interactive) ==
    /\ rn_pc = "idle"
    /\ rn_runs < MaxRuns
    /\ rn_runs' = rn_runs + 1
    /\ rn_step' = "run"
    /\ rn_dumped' = FALSE
    /\ rn_exc' = "none"
    /\ IF rn_vcpus = 0
       THEN /\ rn_result' = "RunnerError"
            /\ UNCHANGED << rn_pc, rnParams, rn_i, rn_exit_reason, statVars,
                            sigVars, gicVars >>
       ELSE IF gic_present /\ gic_finalize_result # "ok"
       THEN /\ rn_result' = gic_finalize_result
            /\ UNCHANGED << rn_pc, rnParams, rn_i, rn_exit_reason, statVars,
                            sigVars, gicVars >>
       ELSE /\ IF gic_present THEN gic_finalize ELSE UNCHANGED gicVars
            /\ rn_result' = "none"
            /\ rn_interactive' = interactive
            /\ rn_quiet' = quiet
            /\ rn_max_exits' = max_exits
            /\ rn_i' = 0
            /\ rn_exit_reason' = 0
            /\ st_exits' = 0
            /\ st_hlt' = FALSE
            /\ st_exit_reason' = "None"
            /\ st_exit_counts' = NoExitCounts
            /\ rn_saved_handler' = sig_handler
            /\ rn_attrs_before' = term_attrs
            /\ IF interactive /\ rn_uart
               THEN /\ sig_handler' = "interactive"
                    /\ sig_timer' = "interval"
                    /\ rn_pc' = "i_armed"
               ELSE IF ~quiet
               THEN /\ sig_handler' = "timeout"
                    /\ sig_timer' = "alarm"
                    /\ rn_pc' = "loop_top"
               ELSE /\ UNCHANGED sigVars
                    /\ rn_pc' = "loop_top"
    /\ UNCHANGED << cfgVars, rn_vcpus, mmVars, termVars, stdin_buf >>
    /\ UNCHANGED << uartVars, devVars >>

\* run(): control reaches the try statement of the interactive branch.
enter_try ==
    /\ rn_pc = "i_armed"
    /\ rn_pc' = "i_enter"
    /\ rn_step' = "enter_try"
    /\ rn_dumped' = FALSE
    /\ UNCHANGED << cfgVars, rn_vcpus, rn_runs, rnParams, rn_i, rn_exit_reason, rn_exc,
                    rn_result, statVars, mmVars, termVars, sigVars, stdin_buf >>
    /\ UNCHANGED << uartVars, gicVars, devVars >>

\* TerminalMode.__init__ and enter_raw_mode up to tcsetattr(TCSANOW); the
\* host refuses tcgetattr when stdin is not a terminal.
enter_raw_mode(is_tty) ==
    /\ rn_pc = "i_enter"
    /\ rn_step' = "enter_raw_mode"
    /\ rn_dumped' = FALSE
    /\ tm_in_raw_mode' = FALSE
    /\ IF is_tty
       THEN /\ tm_original_attrs' = term_attrs
            /\ term_attrs' = "raw"
            /\ rn_pc' = "i_enter2"
            /\ rn_exc' = rn_exc
       ELSE /\ UNCHANGED << tm_original_attrs, term_attrs >>
            /\ rn_pc' = "i_finally"
            /\ rn_exc' = "termios.error"
    /\ UNCHANGED << cfgVars, rn_vcpus, rn_runs, rnParams, rn_i, rn_exit_reason,
                    rn_result, statVars, mmVars, sigVars, stdin_buf >>
    /\ UNCHANGED << uartVars, gicVars, devVars >>

\* enter_raw_mode: self._in_raw_mode = True, and the with body is entered.
enter_raw_mode_flag ==
    /\ rn_pc = "i_enter2"
    /\ tm_in_raw_mode' = TRUE
    /\ rn_pc' = "loop_top"
    /\ rn_step' = "enter_raw_mode_flag"
    /\ rn_dumped' = FALSE
    /\ UNCHANGED << cfgVars, rn_vcpus, rn_runs, rnParams, rn_i, rn_exit_reason, rn_exc,
                    rn_result, statVars, mmVars, term_attrs, tm_original_attrs,
                    sigVars, stdin_buf >>
    /\ UNCHANGED << uartVars, gicVars, devVars >>

\* _run_loop: range(max_exits) is exhausted and stats is returned.
loop_done ==
    /\ rn_pc = "loop_top"
    /\ ~(rn_i < rn_max_exits)
    /\ LoopLeaves("none")
    /\ rn_step' = "loop_done"
    /\ KeepLocals
    /\ rn_dumped' = FALSE
    /\ UNCHANGED << cfgVars, rn_vcpus, rn_runs, 
                    statVars, mmVars, termVars, sigVars, stdin_buf >>
    /\ UNCHANGED << uartVars, gicVars, devVars >>

\* _run_loop: select() and os.read() on stdin, inject_input if data came.
poll_stdin ==
    /\ rn_pc = "loop_top"
    /\ rn_i < rn_max_exits
    /\ InteractiveMode
    /\ rn_pc' = "clear_ie"
    /\ rn_step' = "poll_stdin"
    /\ rn_dumped' = FALSE
    /\ IF stdin_buf # << >>
       THEN /\ inject_input(stdin_buf)
            /\ stdin_buf' = << >>
       ELSE UNCHANGED << uartVars, gicVars, stdin_buf >>
    /\ UNCHANGED << cfgVars, rn_vcpus, rn_runs, rnParams, rn_i, rn_exit_reason, rn_exc,
                    rn_result, statVars, mmVars, termVars, sigVars >>
    /\ UNCHANGED devVars

\* _run_loop: vcpu.set_immediate_exit(False). The VCPU class defines no
\* set_immediate_exit, so the call raises AttributeError.
clear_immediate_exit ==
    /\ rn_pc = "clear_ie"
    /\ LoopLeaves("AttributeError")
    /\ rn_step' = "clear_immediate_exit"
    /\ rn_dumped' = FALSE
    /\ UNCHANGED << cfgVars, rn_vcpus, rn_runs, rnParams, rn_i, rn_exit_reason,
                    statVars, mmVars, termVars, sigVars, stdin_buf >>
    /\ UNCHANGED << uartVars, gicVars, devVars >>

\* The loop is about to call vcpu.run().
AtVcpuRun == rn_pc = "loop_top" /\ rn_i < rn_max_exits /\ ~InteractiveMode

\* _run_loop: exit_reason = vcpu.run(), the EINTR check and the statistics.
\* KVM_RUN fails with errno (EINTR: interrupted by a signal) or, errno 0,
\* delivers an exit (for MMIO, with the access in the exit region).
vcpu_run(errno, outcome, mmio) ==
    /\ AtVcpuRun
    /\ rn_step' = "vcpu_run"
    /\ rn_dumped' = FALSE
    /\ mm_open' = (errno = 0 /\ outcome = KVM_EXIT_MMIO)
    /\ kvm_mmio' = IF errno = 0 /\ outcome = KVM_EXIT_MMIO THEN mmio ELSE kvm_mmio
    /\ mm_at_exit' = kvm_mmio'
    /\ mm_result' = << >>
    /\ mm_dev_value' = << >>
    /\ IF errno \notin {0, EINTR}
       THEN /\ LoopLeaves("VCPUError")
            /\ KeepLocals
            /\ UNCHANGED statVars
       ELSE IF ~is_exit(run_returns(errno, outcome))
       THEN /\ rn_exit_reason' = run_returns(errno, outcome)
            /\ rn_i' = rn_i + 1
            /\ UNCHANGED << rn_pc, rn_exc, rn_result, statVars, rnParams >>
       ELSE /\ rn_exit_reason' = run_returns(errno, outcome)
            /\ st_exits' = st_exits + 1
            /\ st_exit_counts' = count_exit(st_exit_counts, get_exit_reason_name(rn_exit_reason'))
            /\ st_exit_reason' = get_exit_reason_name(rn_exit_reason')
            /\ rn_pc' = "dispatch"
            /\ UNCHANGED << rn_i, rn_exc, rn_result, st_hlt, rnParams >>
    /\ UNCHANGED << cfgVars, rn_vcpus, rn_runs, termVars, sigVars, stdin_buf >>
    /\ UNCHANGED << uartVars, gicVars, devVars >>

\* VMRunner._handle_mmio: the registry dispatch and, for a read, the bytes
\* written back to the exit region. `raised` tells whether to_bytes raised.
handle_mmio ==
    LET a == kvm_mmio
        data == IF a.is_write THEN from_bytes_little(get_mmio_data(a)) ELSE 0
        device == find_device(a.phys_addr)
        offset == a.phys_addr - UART_BASE
        result == IF device = "uart" /\ ~a.is_write THEN uart_read_result(offset) ELSE 0
    IN
    /\ IF device = "none" THEN UNCHANGED << uartVars, gicVars >>
       ELSE IF a.is_write THEN uart_write(offset, data)
       ELSE uart_read(offset)
    /\ mm_result' = << result, device # "none" >>
    /\ mm_dev_value' = IF device = "uart" /\ a.is_write THEN << data >> ELSE << >>
    /\ kvm_mmio' = IF ~a.is_write /\ to_bytes_fits(result, a.len)
                   THEN [a EXCEPT !.data = set_mmio_data(a.data, to_bytes_little(result, a.len))]
                   ELSE a

handle_mmio_raises ==
    LET a == kvm_mmio
        result == IF find_device(a.phys_addr) = "uart" /\ ~a.is_write
                  THEN uart_read_result(a.phys_addr - UART_BASE) ELSE 0
    IN ~a.is_write /\ ~to_bytes_fits(result, a.len)

\* _run_loop: the branch taken on exit_reason.
dispatch_exit ==
    /\ rn_pc = "dispatch"
    /\ rn_step' = "dispatch"
    /\ rn_dumped' = (rn_exit_reason \in {KVM_EXIT_INTERNAL_ERROR, KVM_EXIT_FAIL_ENTRY}
                      \/ (rn_exit_reason \notin HandledExits /\ ~rn_quiet))
    /\ IF rn_exit_reason = KVM_EXIT_HLT
       THEN /\ st_hlt' = TRUE
            /\ LoopLeaves("none")
            /\ KeepLocals
            /\ UNCHANGED << mmVars, uartVars, gicVars >>
       ELSE IF rn_exit_reason = KVM_EXIT_MMIO
       THEN /\ handle_mmio
            /\ IF handle_mmio_raises
               THEN /\ LoopLeaves("OverflowError")
                    /\ KeepLocals
               ELSE /\ rn_pc' = "loop_top"
                    /\ rn_i' = rn_i + 1
                    /\ UNCHANGED << rn_exit_reason, rnParams >>
                    /\ UNCHANGED << rn_exc, rn_result >>
            /\ UNCHANGED << st_hlt, mm_open, mm_at_exit >>
       ELSE IF rn_exit_reason = KVM_EXIT_SYSTEM_EVENT
       THEN /\ LoopLeaves("none")
            /\ KeepLocals
            /\ UNCHANGED << st_hlt, mmVars, uartVars, gicVars >>
       ELSE IF rn_exit_reason \in {KVM_EXIT_INTERNAL_ERROR, KVM_EXIT_FAIL_ENTRY}
       THEN /\ LoopLeaves("RunnerError")
            /\ KeepLocals
            /\ UNCHANGED << st_hlt, mmVars, uartVars, gicVars >>
       ELSE /\ LoopLeaves("none")
            /\ KeepLocals
            /\ UNCHANGED << st_hlt, mmVars, uartVars, gicVars >>
    /\ UNCHANGED << cfgVars, rn_vcpus, rn_runs, st_exits,
                    st_exit_reason, st_exit_counts, termVars, sigVars, stdin_buf >>
    /\ UNCHANGED devVars

\* TerminalMode.__exit__ -> exit_raw_mode: tcsetattr(TCSADRAIN) restores the
\* saved attributes and the flag is cleared.
exit_raw_mode ==
    /\ rn_pc = "term_exit"
    /\ rn_pc' = "i_finally"
    /\ rn_step' = "exit_raw_mode"
    /\ rn_dumped' = FALSE
    /\ IF tm_in_raw_mode
       THEN /\ term_attrs' = tm_original_attrs
            /\ tm_in_raw_mode' = FALSE
       ELSE UNCHANGED << term_attrs, tm_in_raw_mode >>
    /\ UNCHANGED << cfgVars, rn_vcpus, rn_runs, rnParams, rn_i, rn_exit_reason, rn_exc,
                    rn_result, statVars, mmVars, tm_original_attrs, sigVars, stdin_buf >>
    /\ UNCHANGED << uartVars, gicVars, devVars >>

\* run(): how the call ends once its finally block is through.
RunEnds ==
    /\ rn_pc' = "idle"
    /\ rn_exc' = "none"
    /\ rn_result' = IF rn_exc = "none" THEN "returned" ELSE rn_exc

\* run(): the finally block of the interactive branch, setitimer(0, 0) and
\* signal.signal(SIGALRM, original_handler).
finally_interactive ==
    /\ rn_pc = "i_finally"
    /\ sig_timer' = "off"
    /\ sig_handler' = rn_saved_handler
    /\ RunEnds
    /\ rn_step' = "finally_interactive"
    /\ KeepLocals
    /\ rn_dumped' = FALSE
    /\ UNCHANGED << cfgVars, rn_vcpus, rn_runs, 
                    statVars, mmVars, termVars, stdin_buf >>
    /\ UNCHANGED << uartVars, gicVars, devVars >>

\* run(): the finally block of the other branch when not quiet, alarm(0) and
\* signal.signal(SIGALRM, original_handler).
finally_plain ==
    /\ rn_pc = "n_finally"
    /\ sig_timer' = "off"
    /\ sig_handler' = rn_saved_handler
    /\ RunEnds
    /\ rn_step' = "finally_plain"
    /\ KeepLocals
    /\ rn_dumped' = FALSE
    /\ UNCHANGED << cfgVars, rn_vcpus, rn_runs, 
                    statVars, mmVars, termVars, stdin_buf >>
    /\ UNCHANGED << uartVars, gicVars, devVars >>

\* The exception a SIGALRM handler raises in the main thread:
\* interactive_signal_handler calls vcpu.set_immediate_exit(True), which the
\* VCPU class does not define; timeout_handler calls sys.exit(1).
handler_raises(handler) ==
    IF handler = "interactive" THEN "AttributeError" ELSE "SystemExit"

\* SIGALRM is delivered while run() executes: the handler runs between two
\* bytecodes of the main thread and its exception unwinds from there.
sigalrm ==
    LET exc == handler_raises(sig_handler) IN
    /\ sig_timer # "off"
    /\ sig_handler # "orig"
    /\ rn_pc # "idle"
    /\ rn_step' = "sigalrm"
    /\ rn_dumped' = (sig_handler = "timeout")
    /\ sig_timer' = IF sig_timer = "alarm" THEN "off" ELSE sig_timer
    /\ sig_handler' = sig_handler
    /\ CASE rn_pc \in {"i_armed", "i_finally", "n_finally"} ->
              /\ rn_pc' = "idle"
              /\ rn_exc' = "none"
              /\ rn_result' = exc
         [] rn_pc \in {"i_enter", "i_enter2", "term_exit"} ->
              /\ rn_pc' = "i_finally"
              /\ rn_exc' = exc
              /\ rn_result' = rn_result
         [] OTHER -> LoopLeaves(exc)
    /\ KeepLocals
    /\ UNCHANGED << cfgVars, rn_vcpus, rn_runs, 
                    statVars, mmVars, termVars, stdin_buf >>
    /\ UNCHANGED << uartVars, gicVars, devVars >>

\* The user types a byte while an interactive run() is in progress: it
\* becomes readable on stdin.
stdin_arrives(byte) ==
    /\ rn_pc # "idle"
    /\ InteractiveMode
    /\ Len(stdin_buf) < MaxStdin
    /\ Len(uart_rx_buffer) + Len(stdin_buf) < MaxRx
    /\ stdin_buf' = Append(stdin_buf, byte)
    /\ UNCHANGED << cfgVars, rn_vcpus, rn_runs, rn_pc, rnParams, rn_i, rn_exit_reason,
                    rn_exc, rn_result, rn_step, rn_dumped, statVars, mmVars, termVars,
                    sigVars >>
    /\ UNCHANGED << uartVars, gicVars, devVars >>

\* VMRunner.__init__(vm, kvm, devices, create_gic) with or without a UART
\* in `devices`: the runner's own state.
RunnerVarsInit(has_uart, create_gic) ==
    /\ dev_uart = has_uart
    /\ rn_uart = (has_uart /\ create_gic)
    /\ rn_vcpus = 0
    /\ rn_runs = 0
    /\ rn_pc = "idle"
    /\ rn_interactive = FALSE
    /\ rn_quiet = FALSE
    /\ rn_max_exits = 0
    /\ rn_i = 0
    /\ rn_exit_reason = 0
    /\ rn_exc = "none"
    /\ rn_result = "none"
    /\ rn_step = "init"
    /\ rn_saved_handler = "orig"
    /\ rn_attrs_before = "orig"
    /\ rn_dumped = FALSE
    /\ st_exits = 0
    /\ st_hlt = FALSE
    /\ st_exit_reason = "None"
    /\ st_exit_counts = NoExitCounts
    /\ kvm_mmio = [phys_addr |-> 0, data |-> Zero8, len |-> 1, is_write |-> FALSE]
    /\ mm_open = FALSE
    /\ mm_at_exit = [phys_addr |-> 0, data |-> Zero8, len |-> 1, is_write |-> FALSE]
    /\ mm_result = << >>
    /\ mm_dev_value = << >>
    /\ term_attrs = "orig"
    /\ tm_in_raw_mode = FALSE
    /\ tm_original_attrs = "orig"
    /\ sig_handler = "orig"
    /\ sig_timer = "off"
    /\ stdin_buf = << >>

RunIdle == RunnerVarsInit(FALSE, FALSE)

(***************************************************************************)
(* The virtio-MMIO transport (virtio/mmio.py): its register file.          *)
(***************************************************************************)
VIRTIO_MMIO_MAGIC_VALUE == 0
VIRTIO_MMIO_VERSION == 4
VIRTIO_MMIO_DEVICE_ID == 8
VIRTIO_MMIO_VENDOR_ID == 12
VIRTIO_MMIO_DEVICE_FEATURES == 16
VIRTIO_MMIO_DEVICE_FEATURES_SEL == 20
VIRTIO_MMIO_DRIVER_FEATURES == 32
VIRTIO_MMIO_DRIVER_FEATURES_SEL == 36
VIRTIO_MMIO_QUEUE_SEL == 48
VIRTIO_MMIO_QUEUE_NUM_MAX == 52
VIRTIO_MMIO_QUEUE_NUM == 56
VIRTIO_MMIO_QUEUE_READY == 68
VIRTIO_MMIO_QUEUE_NOTIFY == 80
VIRTIO_MMIO_INTERRUPT_STATUS == 96
VIRTIO_MMIO_INTERRUPT_ACK == 100
VIRTIO_MMIO_STATUS == 112
VIRTIO_MMIO_QUEUE_DESC_LOW == 256
VIRTIO_MMIO_QUEUE_DESC_HIGH == 260
VIRTIO_MMIO_QUEUE_DRIVER_LOW == 272
VIRTIO_MMIO_QUEUE_DRIVER_HIGH == 276
VIRTIO_MMIO_QUEUE_DEVICE_LOW == 288
VIRTIO_MMIO_QUEUE_DEVICE_HIGH == 292
VIRTIO_MMIO_CONFIG_GENERATION == 252
VIRTIO_MMIO_CONFIG == 512
VIRTIO_MAGIC == 1953655158
VIRTIO_VERSION == 2
VIRTIO_VENDOR == 1431127377
VIRTIO_DEV_CONSOLE == 3
VIRTIO_QUEUE_NUM_MAX == 256
VIRTIO_STATUS_ACKNOWLEDGE == 1
VIRTIO_STATUS_DRIVER == 2
VIRTIO_STATUS_DRIVER_OK == 4
VIRTIO_STATUS_FEATURES_OK == 8
VIRTIO_STATUS_DEVICE_NEEDS_RESET == 64
VIRTIO_INT_USED_RING == 1
VIRTIO_INT_CONFIG_CHANGE == 2
VIRTIO_CONSOLE_F_EMERG_WRITE == 2
VIRTIO_CONSOLE_QUEUE_RX == 0
VIRTIO_CONSOLE_QUEUE_TX == 1

MaxRegOps == 2      \* register accesses made in one behaviour

\* VirtioConsole.__init__: num_queues = 2.
QueueIds == {VIRTIO_CONSOLE_QUEUE_RX, VIRTIO_CONSOLE_QUEUE_TX}

\* A 64-bit register as its two 32-bit words.
Word64(lo, hi) == [lo |-> lo, hi |-> hi]

\* Virtqueue.__init__ / Virtqueue.reset: the fields of a queue.
QueueFresh ==
    [num |-> 0, ready |-> FALSE, desc_addr |-> Word64(0, 0),
     avail_addr |-> Word64(0, 0), used_addr |-> Word64(0, 0), last_avail_idx |-> 0]

\* The transport's fields as one record.
Transport ==
    [status |-> vm_status, interrupt_status |-> vm_interrupt_status,
     device_features_sel |-> vm_device_features_sel,
     driver_features_sel |-> vm_driver_features_sel,
     driver_features |-> vm_driver_features, queue_sel |-> vm_queue_sel,
     queues |-> vm_queues]

\* VirtioMMIODevice.__init__
TransportFresh ==
    [status |-> 0, interrupt_status |-> 0, device_features_sel |-> 0,
     driver_features_sel |-> 0, driver_features |-> Word64(0, 0), queue_sel |-> 0,
     queues |-> [q \in QueueIds |-> QueueFresh]]

\* VirtioMMIODevice._selected_queue is not None
selected_queue_ok(t) == 0 <= t.queue_sel /\ t.queue_sel < Cardinality(QueueIds)

\* A write to a field of the selected queue: nothing when none is selected.
SetQueue(t, field, value) ==
    IF selected_queue_ok(t)
    THEN [t EXCEPT !.queues[t.queue_sel][field] = value]
    ELSE t

\* The selected queue's 64-bit address `field` with one 32-bit half replaced:
\* (addr & 0xFFFFFFFF00000000) | value, (addr & 0x00000000FFFFFFFF) | (value << 32).
SetQueueWord(t, field, half, value) ==
    IF selected_queue_ok(t)
    THEN [t EXCEPT !.queues[t.queue_sel][field][half] = value]
    ELSE t

\* A reset that forgets the queues (used to show what the reset check sees).
reset_keeps_queues(t) ==
    [t EXCEPT !.status = 0, !.interrupt_status = 0, !.device_features_sel = 0,
              !.driver_features_sel = 0, !.driver_features = Word64(0, 0),
              !.queue_sel = 0]

\* VirtioMMIODevice.reset
vm_reset(t) ==
    [t EXCEPT !.status = 0, !.interrupt_status = 0, !.device_features_sel = 0,
              !.driver_features_sel = 0, !.driver_features = Word64(0, 0),
              !.queue_sel = 0, !.queues = [q \in QueueIds |-> QueueFresh]]

\* An acknowledge that clears every pending bit.
interrupt_ack_all(status, value) == 0

\* VirtioMMIODevice.write, INTERRUPT_ACK: _interrupt_status &= ~value
interrupt_ack(status, value) == BitAndNot(status, value)

\* VirtioMMIODevice.write for every register but QUEUE_NOTIFY: the fields
\* after the write of a 32-bit value.
vm_write_result(t, offset, value) ==
    CASE offset = VIRTIO_MMIO_DEVICE_FEATURES_SEL ->
            [t EXCEPT !.device_features_sel = value]
      [] offset = VIRTIO_MMIO_DRIVER_FEATURES ->
            IF t.driver_features_sel = 0
            THEN [t EXCEPT !.driver_features.lo = value]
            ELSE IF t.driver_features_sel = 1
                 THEN [t EXCEPT !.driver_features.hi = value]
                 ELSE t
      [] offset = VIRTIO_MMIO_DRIVER_FEATURES_SEL ->
            [t EXCEPT !.driver_features_sel = value]
      [] offset = VIRTIO_MMIO_QUEUE_SEL -> [t EXCEPT !.queue_sel = value]
      [] offset = VIRTIO_MMIO_QUEUE_NUM -> SetQueue(t, "num", value)
      [] offset = VIRTIO_MMIO_QUEUE_READY -> SetQueue(t, "ready", value # 0)
      [] offset = VIRTIO_MMIO_INTERRUPT_ACK ->
            [t EXCEPT !.interrupt_status = interrupt_ack(t.interrupt_status, value)]
      [] offset = VIRTIO_MMIO_STATUS ->
            IF value = 0 THEN vm_reset([t EXCEPT !.status = value])
            ELSE [t EXCEPT !.status = value]
      [] offset = VIRTIO_MMIO_QUEUE_DESC_LOW -> SetQueueWord(t, "desc_addr", "lo", value)
      [] offset = VIRTIO_MMIO_QUEUE_DESC_HIGH -> SetQueueWord(t, "desc_addr", "hi", value)
      [] offset = VIRTIO_MMIO_QUEUE_DRIVER_LOW -> SetQueueWord(t, "avail_addr", "lo", value)
      [] offset = VIRTIO_MMIO_QUEUE_DRIVER_HIGH -> SetQueueWord(t, "avail_addr", "hi", value)
      [] offset = VIRTIO_MMIO_QUEUE_DEVICE_LOW -> SetQueueWord(t, "used_addr", "lo", value)
      [] offset = VIRTIO_MMIO_QUEUE_DEVICE_HIGH -> SetQueueWord(t, "used_addr", "hi", value)
      [] OTHER -> t

\* VirtioMMIODevice.read
vm_read_result(t, offset) ==
    CASE offset = VIRTIO_MMIO_MAGIC_VALUE -> VIRTIO_MAGIC
      [] offset = VIRTIO_MMIO_VERSION -> VIRTIO_VERSION
      [] offset = VIRTIO_MMIO_DEVICE_ID -> VIRTIO_DEV_CONSOLE
      [] offset = VIRTIO_MMIO_VENDOR_ID -> VIRTIO_VENDOR
      [] offset = VIRTIO_MMIO_DEVICE_FEATURES ->
            IF t.device_features_sel = 0 THEN 2 ^ VIRTIO_CONSOLE_F_EMERG_WRITE ELSE 0
      [] offset = VIRTIO_MMIO_QUEUE_NUM_MAX -> VIRTIO_QUEUE_NUM_MAX
      [] offset = VIRTIO_MMIO_QUEUE_READY ->
            IF selected_queue_ok(t) /\ t.queues[t.queue_sel].ready THEN 1 ELSE 0
      [] offset = VIRTIO_MMIO_INTERRUPT_STATUS -> t.interrupt_status
      [] offset = VIRTIO_MMIO_STATUS -> t.status
      [] OTHER -> 0

\* The transport's variables take the fields of t.
TransportBecomes(t) ==
    /\ vm_status' = t.status
    /\ vm_interrupt_status' = t.interrupt_status
    /\ vm_device_features_sel' = t.device_features_sel
    /\ vm_driver_features_sel' = t.driver_features_sel
    /\ vm_driver_features' = t.driver_features
    /\ vm_queue_sel' = t.queue_sel
    /\ vm_queues' = t.queues

\* VirtioMMIODevice.write(offset, size, value), offset # QUEUE_NOTIFY
vm_write(offset, value) ==
    /\ vc_pc = "idle"
    /\ offset # VIRTIO_MMIO_QUEUE_NOTIFY
    /\ TransportBecomes(vm_write_result(Transport, offset, value))
    /\ vm_ops < MaxRegOps
    /\ vm_ops' = vm_ops + 1
    /\ vm_op' = << "write", offset, value >>
    /\ vm_irq_calls' = 0
    /\ vm_read_value' = vm_read_value
    /\ UNCHANGED << vcVars, gmVars, regVars >>

\* VirtioMMIODevice.read(offset, size)
vm_read(offset) ==
    /\ vc_pc = "idle"
    /\ vm_read_value' = vm_read_result(Transport, offset)
    /\ vm_ops < MaxRegOps
    /\ vm_ops' = vm_ops + 1
    /\ vm_op' = << "read", offset, 0 >>
    /\ vm_irq_calls' = 0
    /\ UNCHANGED << vm_status, vm_interrupt_status, vm_device_features_sel,
                    vm_driver_features_sel, vm_driver_features, vm_queue_sel,
                    vm_queues >>
    /\ UNCHANGED << vcVars, gmVars, regVars >>

\* VirtioMMIODevice.raise_interrupt's effect on the status and the callback.
raise_interrupt_result(status, reason) == BitOr(status, reason)

\* VirtioMMIODevice.raise_interrupt(reason), with an IRQ callback installed
vm_raise_interrupt(reason) ==
    /\ vc_pc = "idle"
    /\ vm_interrupt_status' = raise_interrupt_result(vm_interrupt_status, reason)
    /\ vm_irq_calls' = 1
    /\ vm_ops < MaxRegOps
    /\ vm_ops' = vm_ops + 1
    /\ vm_op' = << "raise", reason, 0 >>
    /\ UNCHANGED << vm_status, vm_device_features_sel, vm_driver_features_sel,
                    vm_driver_features, vm_queue_sel, vm_queues, vm_read_value >>
    /\ UNCHANGED << vcVars, gmVars, regVars >>

(***************************************************************************)
(* The virtio console (virtio/console.py) on its two virtqueues, and the   *)
(* guest memory the queues live in.                                        *)
(***************************************************************************)
VIRTQ_DESC_F_WRITE == 2

MaxIters == 3       \* requests completed in one behaviour
MaxPublish == 2     \* requests the guest publishes in one behaviour
MaxSend == 2        \* bytes passed to send_input in one behaviour

\* VirtqDesc.is_write
is_write(desc) == BitAnd(desc.flags, VIRTQ_DESC_F_WRITE) # 0

\* Descriptors the guest writes: any flags, a link inside or just outside
\* the table, a buffer of 0..2 bytes in RAM or at an address no slot maps.
CDescSlots == 0..(MaxNum - 1)
CDescs ==
    [flags : {0, VIRTQ_DESC_F_NEXT, VIRTQ_DESC_F_WRITE,
              VIRTQ_DESC_F_NEXT + VIRTQ_DESC_F_WRITE},
     next : 0..MaxNum, len : 0..2, addr : {"ram", "hole"}]

\* The bytes guest memory holds in the buffer of descriptor i.
BufferBytes(i, len) == SubSeq(<< 10 * (i + 1) + 1, 10 * (i + 1) + 2 >>, 1, len)

\* Virtqueue.follow_chain(head) on a table: the error raised ("none" when it
\* returns) and the descriptor indices collected.
RECURSIVE follow_chain_from(_, _, _, _, _)
follow_chain_from(table, num, idx, chain, visited) ==
    IF idx \in visited THEN [error |-> "cycle", chain |-> chain]
    ELSE IF Len(chain) > num THEN [error |-> "too_long", chain |-> chain]
    ELSE IF idx >= num THEN [error |-> "index", chain |-> chain]
    ELSE IF is_chained(table[idx])
         THEN follow_chain_from(table, num, table[idx].next, Append(chain, idx),
                                visited \cup {idx})
         ELSE [error |-> "none", chain |-> Append(chain, idx)]

follow_chain(table, num, head) == follow_chain_from(table, num, head, << >>, {})

\* Virtqueue.put_used(desc_head, bytes_written) on the used ring of queue q.
put_used_on(q, desc_head, bytes_written) ==
    LET used_idx == gm_used_idx[q]
        ring_index == used_idx % vm_queues[q].num IN
    /\ gm_used_ring' = [gm_used_ring EXCEPT ![q][ring_index] =
                            [id |-> desc_head, len |-> bytes_written]]
    /\ gm_used_idx' = [gm_used_idx EXCEPT ![q] = set_used_idx(used_idx + 1)]

\* Virtqueue.get_next_request's comparison: a request is waiting.
has_new_requests(q) == vm_queues[q].last_avail_idx # gm_avail_idx[q]

\* Virtqueue.get_next_request: the head taken (num > 0).
next_request_head(q) == gm_avail_ring[q][vm_queues[q].last_avail_idx % vm_queues[q].num]

\* Virtqueue.get_next_request: _last_avail_idx += 1
take_request(q) ==
    vm_queues' = [vm_queues EXCEPT ![q].last_avail_idx = @ + 1]

\* _process_tx_queue, the for loop over a chain: the bytes collected from
\* the read-only descriptors, or the MemoryError of a read outside RAM.
RECURSIVE tx_collect(_, _, _, _)
tx_collect(table, chain, k, out) ==
    IF k > Len(chain) THEN [error |-> "none", data |-> out]
    ELSE LET desc == table[chain[k]] IN
         IF is_write(desc) THEN tx_collect(table, chain, k + 1, out)
         ELSE IF desc.addr = "hole" THEN [error |-> "MemoryError", data |-> out]
         ELSE tx_collect(table, chain, k + 1, out \o BufferBytes(chain[k], desc.len))

\* _process_rx_queue, the for loop over a chain: the input buffer left, the
\* writes made to guest buffers in order, and the MemoryError of a write
\* outside RAM.
RECURSIVE rx_fill(_, _, _, _, _)
rx_fill(table, chain, k, buf, writes) ==
    IF k > Len(chain) THEN [error |-> "none", buf |-> buf, writes |-> writes]
    ELSE LET desc == table[chain[k]]
             to_write == IF Len(buf) < desc.len THEN Len(buf) ELSE desc.len IN
         IF ~is_write(desc) THEN rx_fill(table, chain, k + 1, buf, writes)
         ELSE IF to_write = 0 THEN [error |-> "none", buf |-> buf, writes |-> writes]
         ELSE IF desc.addr = "hole"
              THEN [error |-> "MemoryError", buf |-> buf, writes |-> writes]
         ELSE rx_fill(table, chain, k + 1, SubSeq(buf, to_write + 1, Len(buf)),
                      Append(writes, [desc |-> chain[k],
                                      data |-> SubSeq(buf, 1, to_write)]))

\* The bytes of a sequence of writes, in order.
RECURSIVE WrittenBytes(_)
WrittenBytes(writes) ==
    IF writes = << >> THEN << >>
    ELSE writes[1].data \o WrittenBytes(Tail(writes))

\* An exception leaves the operation: it unwinds through the device's
\* write(), the registry and _handle_mmio out of the run loop.
Raises(exc) ==
    /\ vc_pc' = "idle"
    /\ vc_error' = exc
    /\ vc_loop' = FALSE

\* The loop of the operation ends: raise_interrupt() and return.
LoopEnds ==
    /\ vc_pc' = "idle"
    /\ vc_error' = "none"
    /\ vc_loop' = vc_loop
    /\ vm_interrupt_status' = raise_interrupt_result(vm_interrupt_status,
                                                     VIRTIO_INT_USED_RING)
    /\ vm_irq_calls' = 1

vmRest == << vm_status, vm_device_features_sel, vm_driver_features_sel,
            vm_driver_features, vm_queue_sel, vm_read_value, vm_ops >>

\* _process_tx_queue / _process_rx_queue return before their loop.
ReturnsEarly ==
    /\ vc_pc' = "idle"
    /\ vc_error' = "none"

\* VirtioMMIODevice.write(QUEUE_NOTIFY, 1): queue_notify(1) enters
\* _process_tx_queue, which returns at once when the queue is not ready.
tx_notify ==
    /\ vc_pc = "idle"
    /\ vc_loop
    /\ vm_op' = << "notify", VIRTIO_CONSOLE_QUEUE_TX, 0 >>
    /\ vm_irq_calls' = 0
    /\ vc_iters' = 0
    /\ IF vm_queues[VIRTIO_CONSOLE_QUEUE_TX].ready
       THEN vc_pc' = "tx_loop" /\ vc_error' = "none"
       ELSE ReturnsEarly
    /\ UNCHANGED << vmRest, vm_interrupt_status, vm_queues, vc_input_buffer, vc_output,
                    vc_loop, gmVars, regVars >>

\* _process_tx_queue: one iteration of its while loop, or its end.
tx_step ==
    LET q == VIRTIO_CONSOLE_QUEUE_TX
        num == vm_queues[q].num
        head == next_request_head(q)
        fc == follow_chain(gm_desc[q], num, head)
        col == tx_collect(gm_desc[q], fc.chain, 1, << >>) IN
    /\ vc_pc = "tx_loop"
    /\ vm_op' = vm_op
    /\ IF ~has_new_requests(q)
       THEN /\ LoopEnds
            /\ UNCHANGED << vm_queues, vc_output, vc_iters, gm_used_idx, gm_used_ring,
                            gh_used_log >>
       ELSE /\ Len(gh_used_log) < MaxIters
            /\ UNCHANGED << vm_interrupt_status, vm_irq_calls >>
            /\ IF num = 0
               THEN /\ Raises("ZeroDivisionError")
                    /\ UNCHANGED << vm_queues, vc_output, vc_iters, gm_used_idx,
                                    gm_used_ring, gh_used_log >>
               ELSE /\ take_request(q)
                    /\ IF fc.error # "none" \/ col.error # "none"
                       THEN /\ Raises(IF fc.error # "none" THEN "ValueError"
                                      ELSE col.error)
                            /\ UNCHANGED << vc_output, vc_iters, gm_used_idx,
                                            gm_used_ring, gh_used_log >>
                       ELSE /\ vc_output' = IF col.data # << >>
                                            THEN Append(vc_output, col.data)
                                            ELSE vc_output
                            /\ put_used_on(q, head, 0)
                            /\ gh_used_log' = Append(gh_used_log,
                                   [id |-> head, len |-> 0, data |-> << >>])
                            /\ vc_iters' = vc_iters + 1
                            /\ UNCHANGED << vc_pc, vc_error, vc_loop >>
    /\ UNCHANGED << vmRest, vc_input_buffer, gm_desc, gm_avail_idx, gm_avail_ring,
                    gm_buffers, gh_published, gh_sent, regVars >>

\* _process_rx_queue up to its loop: nothing to do without input or without
\* a ready RX queue.
rx_enter(buffer) ==
    IF buffer # << >> /\ vm_queues[VIRTIO_CONSOLE_QUEUE_RX].ready
    THEN vc_pc' = "rx_loop" /\ vc_error' = "none"
    ELSE ReturnsEarly

\* VirtioMMIODevice.write(QUEUE_NOTIFY, 0): queue_notify(0) calls
\* _process_rx_queue.
rx_notify ==
    /\ vc_pc = "idle"
    /\ vc_loop
    /\ vm_op' = << "notify", VIRTIO_CONSOLE_QUEUE_RX, 0 >>
    /\ vm_irq_calls' = 0
    /\ vc_iters' = 0
    /\ rx_enter(vc_input_buffer)
    /\ UNCHANGED << vmRest, vm_interrupt_status, vm_queues, vc_input_buffer, vc_output,
                    vc_loop, gmVars, regVars >>

\* VirtioConsole.send_input(data): extends the buffer and calls
\* _process_rx_queue.
send_input(data) ==
    /\ vc_pc = "idle"
    /\ vc_loop
    /\ vm_op' = << "send_input", Len(data), 0 >>
    /\ vm_irq_calls' = 0
    /\ vc_iters' = 0
    /\ vc_input_buffer' = vc_input_buffer \o data
    /\ gh_sent' = gh_sent \o data
    /\ rx_enter(vc_input_buffer \o data)
    /\ UNCHANGED << vmRest, vm_interrupt_status, vm_queues, vc_output, vc_loop,
                    gm_desc, gm_avail_idx, gm_avail_ring, gm_used_idx, gm_used_ring,
                    gm_buffers, gh_published, gh_used_log, regVars >>

\* _process_rx_queue: one iteration of its while loop, or its end.
rx_step ==
    LET q == VIRTIO_CONSOLE_QUEUE_RX
        num == vm_queues[q].num
        head == next_request_head(q)
        fc == follow_chain(gm_desc[q], num, head)
        fill == rx_fill(gm_desc[q], fc.chain, 1, vc_input_buffer, << >>) IN
    /\ vc_pc = "rx_loop"
    /\ vm_op' = vm_op
    /\ IF vc_input_buffer = << >> \/ ~has_new_requests(q)
       THEN /\ LoopEnds
            /\ UNCHANGED << vm_queues, vc_input_buffer, vc_iters, gm_used_idx,
                            gm_used_ring, gm_buffers, gh_used_log >>
       ELSE /\ Len(gh_used_log) < MaxIters
            /\ UNCHANGED << vm_interrupt_status, vm_irq_calls >>
            /\ IF num = 0
               THEN /\ Raises("ZeroDivisionError")
                    /\ UNCHANGED << vm_queues, vc_input_buffer, vc_iters, gm_used_idx,
                                    gm_used_ring, gm_buffers, gh_used_log >>
               ELSE /\ take_request(q)
                    /\ IF fc.error # "none"
                       THEN /\ Raises("ValueError")
                            /\ UNCHANGED << vc_input_buffer, vc_iters, gm_used_idx,
                                            gm_used_ring, gm_buffers, gh_used_log >>
                       ELSE /\ vc_input_buffer' = fill.buf
                            /\ gm_buffers' = fill.writes
                            /\ IF fill.error # "none"
                               THEN /\ Raises(fill.error)
                                    /\ UNCHANGED << vc_iters, gm_used_idx,
                                                    gm_used_ring, gh_used_log >>
                               ELSE /\ put_used_on(q, head,
                                                   Len(WrittenBytes(fill.writes)))
                                    /\ gh_used_log' = Append(gh_used_log,
                                           [id |-> head,
                                            len |-> Len(WrittenBytes(fill.writes)),
                                            data |-> WrittenBytes(fill.writes)])
                                    /\ vc_iters' = vc_iters + 1
                                    /\ UNCHANGED << vc_pc, vc_error, vc_loop >>
    /\ UNCHANGED << vmRest, vc_output, gm_desc, gm_avail_idx, gm_avail_ring,
                    gh_published, gh_sent, regVars >>

\* The guest driver publishes a request on queue q: it stores the head in
\* avail.ring and then increments avail.idx (a u16), never having more than
\* num requests outstanding.  A driver that never wrote QUEUE_NUM (num = 0)
\* uses the first slot.
guest_publish(q, head) ==
    /\ vc_pc = "idle"
    /\ vc_loop
    /\ Len(gh_published) < MaxPublish
    /\ \/ vm_queues[q].num = 0 /\ gm_avail_idx[q] = gm_used_idx[q]
       \/ /\ vm_queues[q].num > 0
          /\ (gm_avail_idx[q] - gm_used_idx[q]) % U16 < vm_queues[q].num
    /\ gm_avail_ring' = [gm_avail_ring EXCEPT
                            ![q][IF vm_queues[q].num = 0 THEN 0
                                 ELSE gm_avail_idx[q] % vm_queues[q].num] = head]
    /\ gm_avail_idx' = [gm_avail_idx EXCEPT ![q] = (@ + 1) % U16]
    /\ gh_published' = Append(gh_published, head)
    /\ UNCHANGED << vmVars, vcVars, gm_desc, gm_used_idx, gm_used_ring, gm_buffers,
                    gh_sent, gh_used_log, regVars >>

(***************************************************************************)
(* The device registry (registry.py): registration.                        *)
(***************************************************************************)
MaxDevices == 3     \* devices registered in one behaviour
MaxBase == 3        \* largest base address of a region explored
MaxSize == 2        \* largest size of a region explored

\* The regions devices report through base_address and size.
Regions == [base : 0..MaxBase, size : 0..MaxSize]

\* An overlap test that only looks at where the regions start.
overlaps_same_base(a, b) == a.base = b.base

\* DeviceRegistry._overlaps
overlaps(a, b) == ~(a.base + a.size <= b.base \/ b.base + b.size <= a.base)

\* Device.contains
contains(device, address) ==
    device.base <= address /\ address < device.base + device.size

\* DeviceRegistry.register(device)
register(device) ==
    /\ Len(reg_devices) < MaxDevices
    /\ IF \E i \in 1..Len(reg_devices) : overlaps(device, reg_devices[i])
       THEN /\ reg_result' = << "ValueError", device >>
            /\ reg_devices' = reg_devices
       ELSE /\ reg_result' = << "ok", device >>
            /\ reg_devices' = Append(reg_devices, device)
    /\ UNCHANGED << vmVars, vcVars, gmVars >>

\* DeviceRegistry.find_device(address): the devices a scan may return.
devices_at(address) ==
    { i \in 1..Len(reg_devices) : contains(reg_devices[i], address) }

RegistryInit ==
    /\ reg_devices = << >>
    /\ reg_result = << "none" >>

(***************************************************************************)
(* Initial states of the virtio device and of guest memory.                *)
(***************************************************************************)
TransportInit(t) ==
    /\ vm_status = t.status
    /\ vm_interrupt_status = t.interrupt_status
    /\ vm_device_features_sel = t.device_features_sel
    /\ vm_driver_features_sel = t.driver_features_sel
    /\ vm_driver_features = t.driver_features
    /\ vm_queue_sel = t.queue_sel
    /\ vm_queues = t.queues
    /\ vm_irq_calls = 0
    /\ vm_op = << "init", 0, 0 >>
    /\ vm_read_value = 0
    /\ vm_ops = 0

\* A console no input was sent to and no guest talked to.
ConsoleInit ==
    /\ vc_input_buffer = << >>
    /\ vc_output = << >>
    /\ vc_pc = "idle"
    /\ vc_error = "none"
    /\ vc_iters = 0
    /\ vc_loop = TRUE
    /\ gh_published = << >>
    /\ gh_sent = << >>
    /\ gh_used_log = << >>
    /\ gm_buffers = << >>

\* Guest memory in which queue q has the descriptor table `table` and rings
\* on which `start` requests of head 0 were published and completed.
GuestMemInit(q, table, start) ==
    /\ gm_desc = [p \in QueueIds |->
                     IF p = q THEN table
                     ELSE [i \in CDescSlots |->
                              [flags |-> 0, next |-> 0, len |-> 0, addr |-> "ram"]]]
    /\ gm_avail_idx = [p \in QueueIds |-> IF p = q THEN start ELSE 0]
    /\ gm_avail_ring = [p \in QueueIds |-> [slot \in CDescSlots |-> 0]]
    /\ gm_used_idx = [p \in QueueIds |-> IF p = q THEN start ELSE 0]
    /\ gm_used_ring = [p \in QueueIds |-> [slot \in CDescSlots |-> ZeroEntry]]

\* The device after the driver's initialization of queue q with num
\* descriptors, `start` requests having been processed since.
TransportReady(q, num, ready, start) ==
    [TransportFresh EXCEPT
        !.status = VIRTIO_STATUS_ACKNOWLEDGE + VIRTIO_STATUS_DRIVER
                     + VIRTIO_STATUS_FEATURES_OK + VIRTIO_STATUS_DRIVER_OK,
        !.queue_sel = q,
        !.queues[q] = [QueueFresh EXCEPT !.num = num, !.ready = ready,
                                         !.last_avail_idx = start]]

VioIdle ==
    /\ TransportInit(TransportFresh)
    /\ ConsoleInit
    /\ GuestMemInit(VIRTIO_CONSOLE_QUEUE_TX,
                    [i \in CDescSlots |->
                        [flags |-> 0, next |-> 0, len |-> 0, addr |-> "ram"]], 0)
    /\ RegistryInit

(***************************************************************************)
(* Specifications.                                                         *)
(***************************************************************************)
UartNext ==
    \/ UartOps
    \/ UartInjectEmpty
    \/ UartReset

\* The register file seen by the guest: reads of every register, writes of
\* the storage registers, of DR and of IMSC.
UartRegsNext ==
    \/ UartRead
    \/ UartWritePlain
    \/ UartWriteDR
    \/ UartWriteIMSC

UartSpecInit ==
    /\ \E attached \in BOOLEAN :
          /\ UartInit(attached)
          /\ GicInit(attached, attached, attached)
    /\ VqIdle
    /\ RunIdle
    /\ VioIdle
    /\ AuxIdle

\* The UART as a device object: every operation of its public interface.
SpecUart == UartSpecInit /\ [][UartNext]_vars

SpecUartRegs == UartSpecInit /\ [][UartRegsNext]_vars

\* The UART with a GIC attached and finalized, under DR reads and writes,
\* IMSC writes, ICR writes and injects of n >= 1 bytes.
UartOpsInit ==
    UartInit(TRUE) /\ GicInit(TRUE, TRUE, TRUE) /\ VqIdle /\ RunIdle /\ VioIdle
    /\ AuxIdle

SpecUartOps == UartOpsInit /\ [][UartOps]_vars

\* The VMRunner as the embedding program drives it: construction with or
\* without a UART and a GIC, create_vcpu and run in any order, the steps of
\* run(), the timer signal and the user's typing.
CreateVcpu == \E granted \in BOOLEAN : create_vcpu(granted)

RunCall ==
    \E max_exits \in {MaxExits}, quiet \in BOOLEAN, interactive \in BOOLEAN :
        run_call(max_exits, quiet, interactive)

EnterTry == enter_try

EnterRawMode == \E is_tty \in BOOLEAN : enter_raw_mode(is_tty)

EnterRawModeFlag == enter_raw_mode_flag

LoopDone == loop_done

PollStdin == poll_stdin

ClearImmediateExit == clear_immediate_exit

VcpuRun ==
    \/ \E errno \in HostErrnos \ {0} : vcpu_run(errno, 0, kvm_mmio)
    \/ \E exit_reason \in ExitReasons \ {KVM_EXIT_MMIO} : vcpu_run(0, exit_reason, kvm_mmio)
    \/ \E mmio \in MmioExits(kvm_mmio.data) : vcpu_run(0, KVM_EXIT_MMIO, mmio)

DispatchExit == dispatch_exit

ExitRawMode == exit_raw_mode

FinallyInteractive == finally_interactive

FinallyPlain == finally_plain

SigAlrm == sigalrm

StdinArrives == \E byte \in OutBytes : stdin_arrives(byte)

GicFinalizeCall == gic_finalize_call

\* The steps a run() in progress takes by itself.
RunSteps ==
    \/ EnterTry
    \/ EnterRawMode
    \/ EnterRawModeFlag
    \/ LoopDone
    \/ PollStdin
    \/ ClearImmediateExit
    \/ VcpuRun
    \/ DispatchExit
    \/ ExitRawMode
    \/ FinallyInteractive
    \/ FinallyPlain

RunnerNext ==
    \/ CreateVcpu
    \/ RunCall
    \/ RunSteps
    \/ SigAlrm
    \/ StdinArrives

RunnerInit ==
    /\ \E has_uart \in BOOLEAN, create_gic \in BOOLEAN :
          /\ RunnerVarsInit(has_uart, create_gic)
          /\ UartInit(has_uart /\ create_gic)
          /\ GicInit(create_gic, create_gic, FALSE)
    /\ VqIdle
    /\ VioIdle
    /\ AuxIdle

SpecRunner == RunnerInit /\ [][RunnerNext]_vars

\* The same with fairness: a run() in progress keeps executing and an armed
\* timer keeps firing; the embedding program and the user owe nothing.
SpecRunnerFair == SpecRunner /\ WF_vars(RunSteps) /\ WF_vars(SigAlrm)

\* The runner whose embedding program may also register a UART through
\* runner.devices after construction.
RegisterUart == register_uart

LateUartNext ==
    \/ RunnerNext
    \/ RegisterUart

SpecLateUart == RunnerInit /\ [][LateUartNext]_vars

\* The runner together with direct calls of GIC.finalize on runner.gic.
LifecycleNext ==
    \/ RunnerNext
    \/ GicFinalizeCall

SpecLifecycle == RunnerInit /\ [][LifecycleNext]_vars

\* follow_chain on a queue of any size over any descriptor table.
VqFrame == UNCHANGED << uartVars, gicVars, runVars, vioVars, auxVars >>

FollowChainCall == VqFrame /\ \E head \in DescSlots : follow_chain_call(head)

FollowChainStep == VqFrame /\ follow_chain_step

ChainNext ==
    \/ FollowChainCall
    \/ FollowChainStep

ChainSpecInit ==
    /\ UartIdle
    /\ RunIdle
    /\ VioIdle
    /\ AuxIdle
    /\ vq_num \in 0..MaxNum
    /\ UsedInit(0)
    /\ \E table \in [DescSlots -> Descs] : ChainInit(table)

SpecChain == ChainSpecInit /\ [][ChainNext]_vars

\* put_used on a configured queue, store by store.
PutUsedCall ==
    VqFrame /\ \E id \in PutIds, len \in PutLens : put_used_call(id, len)

PutUsedWriteId == VqFrame /\ put_used_write_id

PutUsedWriteLen == VqFrame /\ put_used_write_len

PutUsedWriteIdx == VqFrame /\ put_used_write_idx

UsedNext ==
    \/ PutUsedCall
    \/ PutUsedWriteId
    \/ PutUsedWriteLen
    \/ PutUsedWriteIdx

\* used.idx starts at 0 or two completions short of the 16-bit wrap.
UsedStarts == {0, U16 - 2}

UsedSpecInit ==
    /\ UartIdle
    /\ RunIdle
    /\ VioIdle
    /\ AuxIdle
    /\ vq_num \in 0..MaxNum
    /\ \E start \in UsedStarts : UsedInit(start)
    /\ ChainInit([i \in DescSlots |-> [flags |-> 0, next |-> 0]])

SpecUsed == UsedSpecInit /\ [][UsedNext]_vars

\* Everything but the virtio device, guest memory and the registry.
VioFrame == UNCHANGED << uartVars, gicVars, vqVars, runVars, auxVars >>

\* The descriptor tables a guest may lay out for the TX queue.
TxDescs == { d \in CDescs : d.len <= 1 }
TxTables == [CDescSlots -> TxDescs]

\* The indices a queue's counters hold when a behaviour starts: a fresh
\* queue, and one that has completed U16 - 1 requests.
StartIdx == {0, U16 - 1}

TxInit ==
    /\ UartIdle
    /\ VqIdle
    /\ RunIdle
    /\ AuxIdle
    /\ RegistryInit
    /\ ConsoleInit
    /\ \E table \in TxTables, num \in 0..MaxNum, ready \in BOOLEAN, start \in StartIdx :
          /\ TransportInit(TransportReady(VIRTIO_CONSOLE_QUEUE_TX, num, ready, start))
          /\ GuestMemInit(VIRTIO_CONSOLE_QUEUE_TX, table, start)

TxNotify == tx_notify /\ VioFrame
TxStep == tx_step /\ VioFrame
TxPublish == \E head \in 0..MaxNum : guest_publish(VIRTIO_CONSOLE_QUEUE_TX, head) /\ VioFrame

TxNext == TxNotify \/ TxStep \/ TxPublish

SpecTx == TxInit /\ [][TxNext]_vars

\* The guest is paused while the device handles the notify, and the handler
\* runs on: a step of the drain loop that can be taken is taken.
SpecTxFair == SpecTx /\ WF_vars(TxStep)

\* The descriptor tables a guest may lay out for the RX queue; the address
\* of an empty buffer is never used.
RxDescs == { d \in CDescs : d.len > 0 \/ d.addr = "ram" }
RxTables == [CDescSlots -> RxDescs]

\* The next n bytes of host input: byte k of the input stream is k.
InputBytes(n) == [k \in 1..n |-> Len(gh_sent) + k]

RxInit ==
    /\ UartIdle
    /\ VqIdle
    /\ RunIdle
    /\ AuxIdle
    /\ RegistryInit
    /\ ConsoleInit
    /\ \E table \in RxTables, num \in 0..MaxNum, ready \in BOOLEAN :
          /\ TransportInit(TransportReady(VIRTIO_CONSOLE_QUEUE_RX, num, ready, 0))
          /\ GuestMemInit(VIRTIO_CONSOLE_QUEUE_RX, table, 0)

RxNotify == rx_notify /\ VioFrame
RxStep == rx_step /\ VioFrame
RxPublish == \E head \in 0..MaxNum : guest_publish(VIRTIO_CONSOLE_QUEUE_RX, head) /\ VioFrame
SendInput ==
    \E n \in 0..MaxSend :
       /\ Len(gh_sent) + n <= MaxSend
       /\ send_input(InputBytes(n))
       /\ VioFrame

RxNext == RxNotify \/ RxStep \/ RxPublish \/ SendInput

SpecRx == RxInit /\ [][RxNext]_vars

\* A transport the driver configured completely and that has interrupts
\* pending.
TransportConfigured ==
    [status |-> VIRTIO_STATUS_ACKNOWLEDGE + VIRTIO_STATUS_DRIVER
                  + VIRTIO_STATUS_FEATURES_OK + VIRTIO_STATUS_DRIVER_OK,
     interrupt_status |-> VIRTIO_INT_USED_RING + VIRTIO_INT_CONFIG_CHANGE,
     device_features_sel |-> 1, driver_features_sel |-> 1,
     driver_features |-> Word64(2 ^ VIRTIO_CONSOLE_F_EMERG_WRITE, 1), queue_sel |-> 1,
     queues |-> [q \in QueueIds |->
                    [num |-> MaxNum, ready |-> TRUE, desc_addr |-> Word64(1, 1),
                     avail_addr |-> Word64(2, 1), used_addr |-> Word64(3, 1),
                     last_avail_idx |-> 1 + q]]]

\* A transport in the middle of the driver's initialization.
TransportNegotiated ==
    [TransportFresh EXCEPT
        !.status = VIRTIO_STATUS_ACKNOWLEDGE + VIRTIO_STATUS_DRIVER
                     + VIRTIO_STATUS_FEATURES_OK]

\* The registers a driver writes and the values it writes to them.
VmWriteOffsets ==
    {VIRTIO_MMIO_DEVICE_FEATURES_SEL, VIRTIO_MMIO_DRIVER_FEATURES,
     VIRTIO_MMIO_DRIVER_FEATURES_SEL, VIRTIO_MMIO_QUEUE_SEL, VIRTIO_MMIO_QUEUE_NUM,
     VIRTIO_MMIO_QUEUE_READY, VIRTIO_MMIO_INTERRUPT_ACK, VIRTIO_MMIO_STATUS,
     VIRTIO_MMIO_QUEUE_DESC_LOW, VIRTIO_MMIO_QUEUE_DESC_HIGH,
     VIRTIO_MMIO_QUEUE_DRIVER_LOW, VIRTIO_MMIO_QUEUE_DRIVER_HIGH,
     VIRTIO_MMIO_QUEUE_DEVICE_LOW, VIRTIO_MMIO_QUEUE_DEVICE_HIGH,
     VIRTIO_MMIO_MAGIC_VALUE, VIRTIO_MMIO_CONFIG}
VmWriteValues(offset) ==
    IF offset = VIRTIO_MMIO_STATUS
    THEN {0, 1, 3, VIRTIO_STATUS_DRIVER_OK, 11, 15}
    ELSE IF offset = VIRTIO_MMIO_QUEUE_NUM
    THEN {0, 1, 2, VIRTIO_QUEUE_NUM_MAX, VIRTIO_QUEUE_NUM_MAX + 1}
    ELSE 0..3
VmReadOffsets ==
    {VIRTIO_MMIO_MAGIC_VALUE, VIRTIO_MMIO_VERSION, VIRTIO_MMIO_DEVICE_ID,
     VIRTIO_MMIO_VENDOR_ID, VIRTIO_MMIO_DEVICE_FEATURES, VIRTIO_MMIO_QUEUE_NUM_MAX,
     VIRTIO_MMIO_QUEUE_READY, VIRTIO_MMIO_INTERRUPT_STATUS, VIRTIO_MMIO_STATUS,
     VIRTIO_MMIO_CONFIG_GENERATION, VIRTIO_MMIO_CONFIG}

TransportSpecInit ==
    /\ UartIdle
    /\ VqIdle
    /\ RunIdle
    /\ AuxIdle
    /\ RegistryInit
    /\ ConsoleInit
    /\ GuestMemInit(VIRTIO_CONSOLE_QUEUE_TX,
                    [i \in CDescSlots |->
                        [flags |-> 0, next |-> 0, len |-> 0, addr |-> "ram"]], 0)
    /\ \E t \in {TransportFresh, TransportNegotiated, TransportConfigured} :
          TransportInit(t)

VmWrite ==
    \E offset \in VmWriteOffsets : \E value \in VmWriteValues(offset) :
       vm_write(offset, value) /\ VioFrame
VmRead == \E offset \in VmReadOffsets : vm_read(offset) /\ VioFrame
VmRaise ==
    \E reason \in {VIRTIO_INT_USED_RING, VIRTIO_INT_CONFIG_CHANGE} :
       vm_raise_interrupt(reason) /\ VioFrame

TransportNext == VmWrite \/ VmRead \/ VmRaise

SpecTransport == TransportSpecInit /\ [][TransportNext]_vars

RegistrySpecInit ==
    /\ UartIdle
    /\ VqIdle
    /\ RunIdle
    /\ VioIdle
    /\ AuxIdle

Register == \E device \in Regions : register(device) /\ VioFrame

RegistryNext == Register

SpecRegistry == RegistrySpecInit /\ [][RegistryNext]_vars

(***************************************************************************)
(* Guest memory (vm/memory.py) over the host's address space.              *)
(***************************************************************************)
PAGE_SIZE == 4096

MaxMemOps == 3      \* memory-manager operations made in one behaviour
MaxLenAccess == 2   \* longest read or write
MaxHostPages == 3   \* host pages mmap can hand out

\* get_host_address returning None.
NoAddress == -1

\* The outcome "the process dies" among the bytes an undefined read may see.
Fault == -1

\* Host addresses mmap may return: page aligned, consecutive pages.
HostAddrs == { (16 + k) * PAGE_SIZE : k \in 0..(MaxHostPages - 1) }

\* A translation that forgets the offset inside the slot.
get_host_address_base(slots, guest_address) ==
    IF \E i \in 1..Len(slots) :
          slots[i].guest_address <= guest_address
          /\ guest_address < slots[i].guest_address + slots[i].size
    THEN slots[CHOOSE i \in 1..Len(slots) :
                  slots[i].guest_address <= guest_address
                  /\ guest_address < slots[i].guest_address + slots[i].size
               ].host_address
    ELSE NoAddress

\* MemoryManager.get_host_address: the first slot containing the address.
get_host_address(slots, guest_address) ==
    LET hits == { i \in 1..Len(slots) :
                     slots[i].guest_address <= guest_address
                     /\ guest_address < slots[i].guest_address + slots[i].size }
    IN IF hits = {} THEN NoAddress
       ELSE LET i == CHOOSE j \in hits : \A k \in hits : j <= k
            IN slots[i].host_address + (guest_address - slots[i].guest_address)

\* The host address lies in a mapping this process made.
Mapped(maps, a) == \E m \in maps : m.hva <= a /\ a < m.hva + m.size

\* The byte at a mapped host address: anonymous mappings start zeroed.
host_byte(store, a) == IF a \in DOMAIN store THEN store[a] ELSE 0

\* The store with the bytes of [hva, hva + size) forgotten (munmap).
Unmap(store, hva, size) ==
    [a \in { b \in DOMAIN store : ~(hva <= b /\ b < hva + size) } |-> store[a]]

\* The store after ptr[i] = byte for the first k bytes of data.
StoreBytes(store, h, data, k) ==
    [a \in DOMAIN store \cup { h + i - 1 : i \in 1..k } |->
        IF h <= a /\ a < h + k THEN data[a - h + 1] ELSE store[a]]

\* MemoryManager.read(guest_address, size).  Reading ptr[i] outside every
\* mapping is undefined: the process dies of SIGSEGV or gets whatever the
\* host has there (junk).
read_outcome(slots, maps, store, guest_address, size, junk) ==
    LET h == get_host_address(slots, guest_address) IN
    IF h = NoAddress THEN << "MemoryError" >>
    ELSE IF \A i \in 1..size : Mapped(maps, h + i - 1)
         THEN << "ok", [i \in 1..size |-> host_byte(store, h + i - 1)] >>
         ELSE IF junk = Fault THEN << "SIGSEGV" >>
              ELSE << "ok", [i \in 1..size |->
                                IF Mapped(maps, h + i - 1)
                                THEN host_byte(store, h + i - 1) ELSE junk] >>

\* The number of leading bytes of an access at h that fall into mappings.
RECURSIVE MappedPrefix(_, _, _)
MappedPrefix(maps, h, n) ==
    IF n = 0 \/ ~Mapped(maps, h) THEN 0 ELSE 1 + MappedPrefix(maps, h + 1, n - 1)

\* MemoryManager.write(guest_address, data): the result, the store and
\* whether foreign host memory was written.  Writing ptr[i] outside every
\* mapping is undefined: SIGSEGV at the first such byte, or the write lands
\* in memory that belongs to something else.
write_outcome(slots, maps, store, guest_address, data, ub) ==
    LET h == get_host_address(slots, guest_address)
        n == Len(data)
        k == MappedPrefix(maps, h, n) IN
    IF h = NoAddress
    THEN [result |-> << "MemoryError" >>, store |-> store, foreign |-> FALSE]
    ELSE IF k = n
         THEN [result |-> << "ok" >>, store |-> StoreBytes(store, h, data, n),
               foreign |-> FALSE]
         ELSE IF ub = "SIGSEGV"
              THEN [result |-> << "SIGSEGV" >>, store |-> StoreBytes(store, h, data, k),
                    foreign |-> FALSE]
              ELSE [result |-> << "ok" >>,
                    store |-> [a \in DOMAIN store
                                     \cup { b \in { h + i - 1 : i \in 1..n } :
                                              Mapped(maps, b) } |->
                                 IF h <= a /\ a < h + n THEN data[a - h + 1]
                                 ELSE store[a]],
                    foreign |-> TRUE]

\* The process is alive and may call the memory manager.
MemCallable == mem_result[1] # "SIGSEGV" /\ mem_ops < MaxMemOps

mem_read(guest_address, size, junk) ==
    /\ MemCallable
    /\ mem_ops' = mem_ops + 1
    /\ mem_op' = << "read", guest_address, size >>
    /\ mem_result' = read_outcome(mem_slots, mem_maps, mem_store, guest_address,
                                  size, junk)
    /\ UNCHANGED << mem_slots, mem_next_slot_id, mem_maps, mem_store, mem_foreign >>

mem_write(guest_address, data, ub) ==
    LET w == write_outcome(mem_slots, mem_maps, mem_store, guest_address, data, ub) IN
    /\ MemCallable
    /\ mem_ops' = mem_ops + 1
    /\ mem_op' = << "write", guest_address, data >>
    /\ mem_result' = w.result
    /\ mem_store' = w.store
    /\ mem_foreign' = (mem_foreign \/ w.foreign)
    /\ UNCHANGED << mem_slots, mem_next_slot_id, mem_maps >>

\* The host (KVM_SET_USER_MEMORY_REGION) refuses a slot that overlaps a
\* registered one in guest physical space; it may refuse any other too.
GuestOverlap(slots, guest_address, size) ==
    \E i \in 1..Len(slots) :
       ~(guest_address + size <= slots[i].guest_address
         \/ slots[i].guest_address + slots[i].size <= guest_address)

\* The page-aligned host ranges of `size` bytes mmap can return.
FreeHostAddrs(maps, size) ==
    { h \in HostAddrs :
         /\ \A a \in { h + k * PAGE_SIZE : k \in 0..((size \div PAGE_SIZE) - 1) } :
               a \in HostAddrs /\ ~Mapped(maps, a) }

\* A failed registration that leaves the fresh mapping in place.
after_failed_register_leak(maps, hva, size) ==
    maps \cup {[hva |-> hva, size |-> size]}

\* _register_slot on a failed ioctl: the mapping add_ram made is unmapped.
after_failed_register(maps, hva, size) ==
    (maps \cup {[hva |-> hva, size |-> size]}) \ {[hva |-> hva, size |-> size]}

\* MemoryManager.add_ram(guest_address, size) with _register_slot: mmap
\* returns hva (MAP_FAILED: NoAddress), the ioctl succeeds or not.
mem_add_ram(guest_address, size, hva, ioctl_ok) ==
    /\ MemCallable
    /\ mem_ops' = mem_ops + 1
    /\ UNCHANGED << mem_store, mem_foreign >>
    /\ IF guest_address % PAGE_SIZE # 0 \/ size % PAGE_SIZE # 0
       THEN /\ mem_result' = << "MemoryError", "alignment" >>
            /\ mem_op' = << "add_ram", guest_address, size, "not asked" >>
            /\ UNCHANGED << mem_slots, mem_next_slot_id, mem_maps >>
       ELSE IF size = 0
       THEN /\ mem_result' = << "MemoryError", "size" >>
            /\ mem_op' = << "add_ram", guest_address, size, "not asked" >>
            /\ UNCHANGED << mem_slots, mem_next_slot_id, mem_maps >>
       ELSE IF hva = NoAddress
       THEN /\ mem_result' = << "MemoryError", "mmap" >>
            /\ mem_op' = << "add_ram", guest_address, size, "mmap failed" >>
            /\ UNCHANGED << mem_slots, mem_next_slot_id, mem_maps >>
       ELSE /\ hva \in FreeHostAddrs(mem_maps, size)
            /\ mem_next_slot_id' = mem_next_slot_id + 1
            /\ IF ~ioctl_ok \/ GuestOverlap(mem_slots, guest_address, size)
               THEN /\ mem_result' = << "MemoryError", "registration" >>
                    /\ mem_op' = << "add_ram", guest_address, size, "rejected" >>
                    /\ mem_maps' = after_failed_register(mem_maps, hva, size)
                    /\ UNCHANGED mem_slots
               ELSE /\ mem_result' = << "ok", mem_next_slot_id >>
                    /\ mem_op' = << "add_ram", guest_address, size, "accepted" >>
                    /\ mem_maps' = mem_maps \cup {[hva |-> hva, size |-> size]}
                    /\ mem_slots' = Append(mem_slots,
                                           [slot_id |-> mem_next_slot_id,
                                            guest_address |-> guest_address,
                                            size |-> size, host_address |-> hva])

\* MemoryManager.cleanup: munmap every slot and forget the slots.
RECURSIVE UnmapAll(_, _)
UnmapAll(store, slots) ==
    IF slots = << >> THEN store
    ELSE UnmapAll(Unmap(store, Head(slots).host_address, Head(slots).size), Tail(slots))

mem_cleanup ==
    /\ MemCallable
    /\ mem_ops' = mem_ops + 1
    /\ mem_op' = << "cleanup" >>
    /\ mem_result' = << "ok" >>
    /\ mem_store' = UnmapAll(mem_store, mem_slots)
    /\ mem_maps' = { m \in mem_maps :
                        \A i \in 1..Len(mem_slots) : mem_slots[i].host_address # m.hva }
    /\ mem_slots' = << >>
    /\ UNCHANGED << mem_next_slot_id, mem_foreign >>

\* The arguments explored: addresses at the ends of two pages and past
\* them, aligned and unaligned, sizes of zero, one and two pages and an
\* unaligned one, data of up to MaxLenAccess bytes.
AccessAddrs == {0, PAGE_SIZE - 1, PAGE_SIZE, 2 * PAGE_SIZE - 1, 2 * PAGE_SIZE}
AddRamAddrs == {0, PAGE_SIZE, 100}
AddRamSizes == {0, PAGE_SIZE, 2 * PAGE_SIZE, 100}
DataBytes == {1, 2}
Datas == UNION { [1..n -> DataBytes] : n \in 0..MaxLenAccess }
Junk == {Fault, 255}

MemFrame ==
    UNCHANGED << uartVars, gicVars, vqVars, runVars, vioVars, blVars, khVars, ldVars,
                 giVars,
                 gqVars >>

MemRead ==
    \E guest_address \in AccessAddrs, size \in 0..MaxLenAccess, junk \in Junk :
       mem_read(guest_address, size, junk) /\ MemFrame
MemWrite ==
    \E guest_address \in AccessAddrs, data \in Datas, ub \in {"SIGSEGV", "foreign"} :
       mem_write(guest_address, data, ub) /\ MemFrame
MemAddRam ==
    \E guest_address \in AddRamAddrs, size \in AddRamSizes,
       hva \in HostAddrs \cup {NoAddress}, ioctl_ok \in BOOLEAN :
       mem_add_ram(guest_address, size, hva, ioctl_ok) /\ MemFrame
MemCleanup == mem_cleanup /\ MemFrame

MemNext == MemRead \/ MemWrite \/ MemAddRam \/ MemCleanup

MemSpecInit ==
    /\ UartIdle
    /\ VqIdle
    /\ RunIdle
    /\ VioIdle
    /\ AuxIdle

SpecMemory == MemSpecInit /\ [][MemNext]_vars

(***************************************************************************)
(* boot_linux (cli.py): the host resources one call acquires and the       *)
(* order in which they are released.                                       *)
(***************************************************************************)
\* The resources: the descriptor of /dev/kvm, of the VM, of the in-kernel
\* GIC device and of the vCPU, the mapping of guest RAM and its slot in the
\* VM, the mapping of the vCPU's exit region, and the run loop in progress.
Resources == {"kvm_fd", "vm_fd", "ram_map", "ram_slot", "gic_fd", "vcpu_fd",
              "vcpu_run_map", "loop"}

\* The exceptions boot_linux turns into typer.Exit(code=1).
BlCaught == {"KVMError", "VMError", "RunnerError", "KernelError", "FileNotFoundError"}

\* An exception leaves the with blocks entered so far, innermost first.
BlRaise(exc, unwind) ==
    /\ bl_exc' = exc
    /\ bl_pc' = unwind

\* The log after releasing the resources rs (in this order) that are held.
Released(log, open, rs) == log \o SelectSeq(rs, LAMBDA r : r \in open)

\* boot_linux is called.
boot_linux_call(initrd, dtb, interactive) ==
    /\ bl_pc = "idle"
    /\ bl_pc' = "open_kvm"
    /\ bl_args' = << initrd, dtb, interactive >>
    /\ UNCHANGED << bl_exc, bl_open, bl_log >>

\* with KVMSystem() as kvm: open("/dev/kvm"); a failed open or a wrong API
\* version (the descriptor is closed again) raises KVMError.
open_kvm(ok) ==
    /\ bl_pc = "open_kvm"
    /\ IF ok
       THEN bl_open' = bl_open \cup {"kvm_fd"} /\ bl_pc' = "create_vm"
                       /\ UNCHANGED bl_exc
       ELSE BlRaise("KVMError", "except") /\ UNCHANGED bl_open
    /\ UNCHANGED << bl_args, bl_log >>

\* with VirtualMachine(kvm, ram_size) as vm: KVM_CREATE_VM, then add_ram
\* maps the RAM and registers its slot.  When add_ram raises, the VM's
\* descriptor stays with the object nobody got.
create_vm(create_ok, ram_ok) ==
    /\ bl_pc = "create_vm"
    /\ IF ~create_ok
       THEN BlRaise("VMError", "kvm_exit") /\ UNCHANGED bl_open
       ELSE IF ~ram_ok
       THEN BlRaise("MemoryError", "kvm_exit") /\ bl_open' = bl_open \cup {"vm_fd"}
       ELSE /\ bl_open' = bl_open \cup {"vm_fd", "ram_map", "ram_slot"}
            /\ bl_pc' = "make_runner"
            /\ UNCHANGED bl_exc
    /\ UNCHANGED << bl_args, bl_log >>

\* DeviceRegistry(), PL011UART(), VMRunner(vm, kvm, devices): the runner
\* creates the in-kernel GIC device.
make_runner(gic_ok) ==
    /\ bl_pc = "make_runner"
    /\ IF gic_ok
       THEN bl_open' = bl_open \cup {"gic_fd"} /\ bl_pc' = "create_vcpu"
                       /\ UNCHANGED bl_exc
       ELSE BlRaise("GICError", "vm_exit") /\ UNCHANGED bl_open
    /\ UNCHANGED << bl_args, bl_log >>

\* runner.create_vcpu(): KVM_CREATE_VCPU and the mapping of the exit region;
\* a failure leaves nothing of the vCPU behind.
create_vcpu_call(ok) ==
    /\ bl_pc = "create_vcpu"
    /\ IF ok
       THEN bl_open' = bl_open \cup {"vcpu_fd", "vcpu_run_map"} /\ bl_pc' = "load"
                       /\ UNCHANGED bl_exc
       ELSE BlRaise("VCPUError", "vm_exit") /\ UNCHANGED bl_open
    /\ UNCHANGED << bl_args, bl_log >>

\* The device tree, loader.load and loader.setup_vcpu: files may be missing
\* (the dtb only when one was given), the kernel image may be invalid.
load_results(args) ==
    {"ok", "KernelError", "MemoryError"}
        \cup (IF args[1] \/ args[2] THEN {"FileNotFoundError"} ELSE {})

load_images(result) ==
    /\ bl_pc = "load"
    /\ result \in load_results(bl_args)
    /\ IF result = "ok"
       THEN bl_pc' = "run" /\ UNCHANGED bl_exc
       ELSE BlRaise(result, "vm_exit")
    /\ UNCHANGED << bl_args, bl_open, bl_log >>

\* runner.run(...) is entered: the run loop is in progress.
run_enter ==
    /\ bl_pc = "run"
    /\ bl_pc' = "running"
    /\ bl_open' = bl_open \cup {"loop"}
    /\ UNCHANGED << bl_args, bl_exc, bl_log >>

\* runner.run(...) returns its statistics or raises: the loop has stopped.
run_leave(result) ==
    /\ bl_pc = "running"
    /\ bl_log' = Released(bl_log, bl_open, << "loop" >>)
    /\ bl_open' = bl_open \ {"loop"}
    /\ bl_exc' = (IF result = "returned" THEN "none" ELSE result)
    /\ bl_pc' = "vm_exit"
    /\ UNCHANGED bl_args

\* MemoryManager.cleanup: each slot is unmapped, then unregistered.
cleanup_order == << "ram_map", "ram_slot" >>

\* VirtualMachine.close: memory.cleanup(), then close(fd).
vm_close_order == cleanup_order \o << "vm_fd" >>

\* VirtualMachine.__exit__ -> close().
vm_exit ==
    /\ bl_pc = "vm_exit"
    /\ bl_log' = Released(bl_log, bl_open, vm_close_order)
    /\ bl_open' = bl_open \ {"ram_map", "ram_slot", "vm_fd"}
    /\ bl_pc' = "kvm_exit"
    /\ UNCHANGED << bl_args, bl_exc >>

\* KVMSystem.__exit__ -> close().
kvm_exit ==
    /\ bl_pc = "kvm_exit"
    /\ bl_log' = Released(bl_log, bl_open, << "kvm_fd" >>)
    /\ bl_open' = bl_open \ {"kvm_fd"}
    /\ bl_pc' = "except"
    /\ UNCHANGED << bl_args, bl_exc >>

\* The except clauses and the end of boot_linux: the caught exceptions
\* become typer.Exit, the others propagate; the locals go away.
boot_linux_leave ==
    /\ bl_pc = "except"
    /\ bl_exc' = (IF bl_exc \in BlCaught THEN "Exit" ELSE bl_exc)
    /\ bl_pc' = "done"
    /\ UNCHANGED << bl_args, bl_open, bl_log >>

\* VCPU.__del__ -> close(), once nothing refers to the vCPU: the exit
\* region is unmapped, then the descriptor closed.  (GIC has no __del__:
\* nothing calls GIC.close.)
vcpu_del ==
    /\ bl_pc = "done"
    /\ "vcpu_fd" \in bl_open
    /\ bl_log' = Released(bl_log, bl_open, << "vcpu_run_map", "vcpu_fd" >>)
    /\ bl_open' = bl_open \ {"vcpu_run_map", "vcpu_fd"}
    /\ UNCHANGED << bl_pc, bl_args, bl_exc >>

\* VirtualMachine.__del__ -> close() for a VM whose constructor raised.
vm_del ==
    /\ bl_pc = "done"
    /\ "vm_fd" \in bl_open
    /\ bl_log' = Released(bl_log, bl_open, vm_close_order)
    /\ bl_open' = bl_open \ {"ram_map", "ram_slot", "vm_fd"}
    /\ UNCHANGED << bl_pc, bl_args, bl_exc >>

BlFrame ==
    UNCHANGED << uartVars, gicVars, vqVars, runVars, vioVars, memVars, khVars, ldVars,
                 giVars,
                 gqVars >>

BootLinuxCall ==
    \E initrd \in BOOLEAN, dtb \in BOOLEAN, interactive \in BOOLEAN :
       boot_linux_call(initrd, dtb, interactive) /\ BlFrame
OpenKvm == \E ok \in BOOLEAN : open_kvm(ok) /\ BlFrame
CreateVm == \E create_ok \in BOOLEAN, ram_ok \in BOOLEAN : create_vm(create_ok, ram_ok) /\ BlFrame
MakeRunner == \E gic_ok \in BOOLEAN : make_runner(gic_ok) /\ BlFrame
CreateVcpuCall == \E ok \in BOOLEAN : create_vcpu_call(ok) /\ BlFrame
LoadImages ==
    \E result \in {"ok", "KernelError", "MemoryError", "FileNotFoundError"} :
       load_images(result) /\ BlFrame
RunEnter == run_enter /\ BlFrame
RunLeave ==
    \E result \in {"returned", "RunnerError", "VCPUError", "KeyboardInterrupt"} :
       run_leave(result) /\ BlFrame
VmExit == vm_exit /\ BlFrame
KvmExit == kvm_exit /\ BlFrame
BootLinuxLeave == boot_linux_leave /\ BlFrame
VcpuDel == vcpu_del /\ BlFrame
VmDel == vm_del /\ BlFrame

BootNext ==
    \/ BootLinuxCall
    \/ OpenKvm
    \/ CreateVm
    \/ MakeRunner
    \/ CreateVcpuCall
    \/ LoadImages
    \/ RunEnter
    \/ RunLeave
    \/ VmExit
    \/ KvmExit
    \/ BootLinuxLeave
    \/ VcpuDel
    \/ VmDel

BootInit ==
    /\ UartIdle
    /\ VqIdle
    /\ RunIdle
    /\ VioIdle
    /\ AuxIdle

SpecBoot == BootInit /\ [][BootNext]_vars

(***************************************************************************)
(* KernelImage.load (boot/kernel.py): the header of an ARM64 kernel image. *)
(* Unsigned 64-bit and 32-bit values are kept as little-endian sequences   *)
(* of 16-bit limbs (four and two of them).                                 *)
(***************************************************************************)
LIMB == 65536

\* ARM64_MAGIC = 0x644D5241 as limbs.
ARM64_MAGIC == << 21057, 25677 >>

\* 0x80000 (512 KB) as limbs.
DEFAULT_TEXT_OFFSET == << 0, 8, 0, 0 >>

Zero64 == << 0, 0, 0, 0 >>

\* A small natural number as a 64-bit value.
Nat64(n) == << n % LIMB, n \div LIMB, 0, 0 >>

\* struct.pack("<I"/"<Q"): the little-endian bytes of a value.
PackLE(limbs) ==
    [i \in 1..(2 * Len(limbs)) |->
        IF i % 2 = 1 THEN limbs[(i + 1) \div 2] % 256 ELSE limbs[i \div 2] \div 256]

\* struct.unpack("<I"/"<Q"): the value of little-endian bytes.
UnpackLE(bytes) ==
    [k \in 1..(Len(bytes) \div 2) |-> bytes[2 * k - 1] + 256 * bytes[2 * k]]

\* The 64-byte arm64_image_header built from its fields.
PackHeader(f) ==
    PackLE(f.code) \o PackLE(f.text_offset) \o PackLE(f.image_size) \o PackLE(f.flags)
        \o PackLE(f.res) \o PackLE(Zero64) \o PackLE(Zero64) \o PackLE(f.magic)
        \o PackLE(<< 0, 0 >>)

\* data[a:b] for 0-based a, b within the data.
Slice(data, a, b) == SubSeq(data, a + 1, b)

\* flags & 0x8
PlacementIndependent(flags) == (flags[1] \div 8) % 2 = 1

\* "if image_size == 0: image_size = len(data)"
size_or_file(image_size, data) ==
    IF image_size = Zero64 THEN Nat64(Len(data)) ELSE image_size

\* KernelImage.load on the bytes of the file: the result and, for a
\* KernelImage, its text_offset, image_size and flags.
kernel_load_result(data) ==
    IF Len(data) < 64 THEN << "KernelError", "too small" >>
    ELSE LET text_offset == UnpackLE(Slice(data, 8, 16))
             image_size == UnpackLE(Slice(data, 16, 24))
             flags == UnpackLE(Slice(data, 24, 32))
             magic == UnpackLE(Slice(data, 56, 60))
         IN IF magic # ARM64_MAGIC THEN << "KernelError", "magic" >>
            ELSE << "ok",
                    IF text_offset = Zero64
                    THEN (IF PlacementIndependent(flags) THEN Zero64
                          ELSE DEFAULT_TEXT_OFFSET)
                    ELSE text_offset,
                    size_or_file(image_size, data),
                    flags >>

kernel_load ==
    /\ kh_result = << "none" >>
    /\ kh_result' = kernel_load_result(kh_data)
    /\ UNCHANGED << kh_fields, kh_data >>

\* The headers explored: text_offset zero, the default, one with bits in
\* every limb; image_size zero, small, large; flags with and without bit 3,
\* with high bits; the magic, and values that differ from it in one limb;
\* files cut short, of exactly 64 bytes, and with bytes after the header.
TextOffsets == {Zero64, DEFAULT_TEXT_OFFSET, << 0, 0, 1, 0 >>, << 513, 1027, 1541, 2055 >>}
ImageSizes == {Zero64, Nat64(64), << 0, 0, 0, 32768 >>}
FlagWords == {Zero64, Nat64(8), Nat64(10), Nat64(7), << 8, 0, 0, 1 >>, << 0, 0, 8, 0 >>}
Magics == {ARM64_MAGIC, << 0, 0 >>, << 21057, 0 >>, << 25677, 21057 >>}
Codes == {<< 0, 0, 0, 0 >>, << 1, 2, 3, 4 >>}
Payloads == {<< >>, << 1 >>, << 0, 0, 0 >>}
FileLens == {0, 63, 64}
HeaderFields ==
    [code : Codes, text_offset : TextOffsets, image_size : ImageSizes,
     flags : FlagWords, res : {Zero64, Nat64(8)}, magic : Magics]

KhFrame ==
    UNCHANGED << uartVars, gicVars, vqVars, runVars, vioVars, memVars, blVars, ldVars,
                 giVars,
                 gqVars >>

KernelLoad == kernel_load /\ KhFrame

KernelNext == KernelLoad

KernelInit ==
    /\ UartIdle
    /\ VqIdle
    /\ RunIdle
    /\ VioIdle
    /\ MemIdle
    /\ BlIdle
    /\ LdIdle
    /\ GiIdle
    /\ GqIdle
    /\ kh_fields \in HeaderFields
    /\ \E payload \in Payloads, n \in FileLens :
          kh_data = IF n = 64 THEN PackHeader(kh_fields) \o payload
                    ELSE SubSeq(PackHeader(kh_fields), 1, n)
    /\ kh_result = << "none" >>

SpecKernel == KernelInit /\ [][KernelNext]_vars

(***************************************************************************)
(* BootLoader.load (boot/loader.py): where the kernel, the initramfs and   *)
(* the device tree are placed in guest memory.                             *)
(***************************************************************************)
RAM_BASE == 1073741824

\* 128 * 1024 * 1024
INITRD_OFFSET == 134217728

\* No initrd_path / no dtb_data given.
NotGiven == -1

\* (x + 0xFFF) & ~0xFFF
align_4k(x) == ((x + 4095) \div PAGE_SIZE) * PAGE_SIZE

\* next_addr: the end of the initramfs; initrd_addr when none is given.
next_addr_of(initrd_addr, initrd_size) ==
    IF initrd_size = NotGiven THEN initrd_addr ELSE initrd_addr + initrd_size

\* MemoryManager.write as the loader sees it: MemoryError when the address
\* lies in no slot; RAM is the one slot [RAM_BASE, RAM_BASE + ram_size).
write_ok(ram_size, address) == RAM_BASE <= address /\ address < RAM_BASE + ram_size

\* BootLoader.load(kernel_path, initrd_path, dtb_data) for a kernel image
\* with text_offset and len(data) = kernel_size: the writes made and the
\* BootInfo returned, or the exception raised.
load_outcome(a) ==
    LET kernel_addr == RAM_BASE + a.text_offset
        kernel_end == kernel_addr + a.kernel_size
        initrd_addr == align_4k(RAM_BASE + INITRD_OFFSET)
        initrd_size == IF a.initrd_size = NotGiven THEN 0 ELSE a.initrd_size
        dtb_addr == align_4k(next_addr_of(initrd_addr, a.initrd_size))
        w1 == << << kernel_addr, a.kernel_size >> >>
        w2 == IF a.initrd_size = NotGiven THEN w1
              ELSE Append(w1, << initrd_addr, a.initrd_size >>)
        w3 == Append(w2, << dtb_addr, a.dtb_size >>)
    IN IF a.dtb_size = NotGiven
       THEN [writes |-> << >>, result |-> << "ValueError" >>]
       ELSE IF ~write_ok(a.ram_size, kernel_addr)
       THEN [writes |-> << >>, result |-> << "MemoryError" >>]
       ELSE IF a.initrd_size # NotGiven /\ ~write_ok(a.ram_size, initrd_addr)
       THEN [writes |-> w1, result |-> << "MemoryError" >>]
       ELSE IF ~write_ok(a.ram_size, dtb_addr)
       THEN [writes |-> w2, result |-> << "MemoryError" >>]
       ELSE [writes |-> w3,
             result |-> << "ok",
                           [kernel_addr |-> kernel_addr,
                            kernel_size |-> a.kernel_size,
                            initrd_addr |-> IF initrd_size > 0 THEN initrd_addr ELSE 0,
                            initrd_size |-> initrd_size,
                            dtb_addr |-> dtb_addr,
                            dtb_size |-> a.dtb_size] >>]

loader_load ==
    /\ ld_result = << "none" >>
    /\ ld_writes' = load_outcome(ld_args).writes
    /\ ld_result' = load_outcome(ld_args).result
    /\ UNCHANGED ld_args

\* The calls explored: text offsets 0, 512 KB and 2 MB; kernels of a
\* header, of one page and a byte more, of 1 MB; no initramfs, an empty
\* one, one of a byte, of a page and of a page and a byte; no device tree
\* or one of a byte or a page; RAM of 64 MB, 128 MB and 256 MB.
LoadArgs ==
    [text_offset : {0, 524288, 2097152},
     kernel_size : {64, PAGE_SIZE, PAGE_SIZE + 1, 1048576},
     initrd_size : {NotGiven, 0, 1, PAGE_SIZE, PAGE_SIZE + 1},
     dtb_size : {NotGiven, 1, PAGE_SIZE},
     ram_size : {67108864, INITRD_OFFSET, 268435456}]

LdFrame ==
    UNCHANGED << uartVars, gicVars, vqVars, runVars, vioVars, memVars, blVars, khVars,
                 giVars,
                 gqVars >>

LoaderLoad == loader_load /\ LdFrame

LoaderNext == LoaderLoad

LoaderInit ==
    /\ UartIdle
    /\ VqIdle
    /\ RunIdle
    /\ VioIdle
    /\ MemIdle
    /\ BlIdle
    /\ KhIdle
    /\ GiIdle
    /\ GqIdle
    /\ ld_args \in LoadArgs
    /\ ld_writes = << >>
    /\ ld_result = << "none" >>

SpecLoader == LoaderInit /\ [][LoaderNext]_vars

(***************************************************************************)
(* GIC.inject_irq (devices/gic.py): the request passed to KVM_IRQ_LINE.    *)
(***************************************************************************)
KVM_ARM_IRQ_TYPE_SPI == 1
KVM_ARM_IRQ_TYPE_PPI == 2

\* 1 << 24
IRQ_TYPE_SHIFT == 16777216

\* The interrupt number passed on as it is.
encode_irq_untagged(irq) == irq

\* encoded_irq: the type in bits 31-24 for SPIs and PPIs, the number alone
\* for SGIs.
encode_irq(irq) ==
    IF irq >= 32 THEN BitOr(KVM_ARM_IRQ_TYPE_SPI * IRQ_TYPE_SHIFT, irq)
    ELSE IF irq >= 16 THEN BitOr(KVM_ARM_IRQ_TYPE_PPI * IRQ_TYPE_SHIFT, irq)
    ELSE irq

\* GIC.inject_irq(irq, level); the host accepts the request or not.
gic_inject_irq(irq, level, ioctl_ok) ==
    /\ gi_result = "none"
    /\ gi_args' = << irq, level >>
    /\ IF ~gic_finalized
       THEN /\ gi_result' = "GICError"
            /\ UNCHANGED gi_requests
       ELSE /\ gi_requests' = Append(gi_requests,
                                     [irq |-> encode_irq(irq),
                                      level |-> IF level THEN 1 ELSE 0])
            /\ gi_result' = IF ioctl_ok THEN "ok" ELSE "GICError"

\* The interrupt ids: every value of 16 bits.
IrqIds == 0..(U16 - 1)

GiFrame ==
    UNCHANGED << uartVars, gicVars, vqVars, runVars, vioVars, memVars, blVars, khVars,
                 ldVars,
                 gqVars >>

GicInjectIrq ==
    /\ gi_result = "none"
    /\ \E irq \in IrqIds, level \in BOOLEAN, ioctl_ok \in BOOLEAN :
          gic_inject_irq(irq, level, ioctl_ok) /\ GiFrame

GicNext == GicInjectIrq

GicSpecInit ==
    /\ UartInit(FALSE)
    /\ \E created \in BOOLEAN, fin \in BOOLEAN :
          (fin => created) /\ GicInit(TRUE, created, fin)
    /\ VqIdle
    /\ RunIdle
    /\ VioIdle
    /\ AuxIdle

SpecGic == GicSpecInit /\ [][GicNext]_vars

(***************************************************************************)
(* Virtqueue.get_next_request called directly on the TX queue, with a      *)
(* guest that publishes requests.                                          *)
(***************************************************************************)
MaxGets == 4        \* get_next_request calls made in one behaviour

\* "self._last_avail_idx += 1" on a Python int.
next_last_avail_idx(last) == last + 1

\* Virtqueue.get_next_request() on queue q: None when _last_avail_idx equals
\* avail.idx, else the ring entry at _last_avail_idx % num (ZeroDivisionError
\* for num = 0) and the increment of _last_avail_idx.
get_next_request(q) ==
    /\ gq_calls < MaxGets
    /\ gq_calls' = gq_calls + 1
    /\ IF ~has_new_requests(q)
       THEN /\ gq_result' = << "None" >>
            /\ UNCHANGED << vm_queues, gq_returned >>
       ELSE IF vm_queues[q].num = 0
       THEN /\ gq_result' = << "ZeroDivisionError" >>
            /\ UNCHANGED << vm_queues, gq_returned >>
       ELSE /\ gq_result' = << "head", next_request_head(q) >>
            /\ gq_returned' = Append(gq_returned, next_request_head(q))
            /\ vm_queues' = [vm_queues EXCEPT ![q].last_avail_idx =
                                next_last_avail_idx(@)]
    /\ UNCHANGED << vm_status, vm_interrupt_status, vm_device_features_sel,
                    vm_driver_features_sel, vm_driver_features, vm_queue_sel,
                    vm_irq_calls, vm_op, vm_read_value, vm_ops, vcVars, gmVars, regVars >>

\* The guest driver publishes a request on queue q: the head goes into
\* avail.ring at avail.idx % num, then avail.idx (a u16) is incremented; it
\* never has more than num requests the device has not taken.
avail_publish(q, head) ==
    /\ Len(gh_published) < MaxPublish
    /\ vm_queues[q].num > 0
    /\ Len(gh_published) - Len(gq_returned) < vm_queues[q].num
    /\ Len(gh_published) >= Len(gq_returned)
    /\ gm_avail_ring' = [gm_avail_ring EXCEPT ![q][gm_avail_idx[q] % vm_queues[q].num] = head]
    /\ gm_avail_idx' = [gm_avail_idx EXCEPT ![q] = (@ + 1) % U16]
    /\ gh_published' = Append(gh_published, head)
    /\ UNCHANGED << vmVars, vcVars, gm_desc, gm_used_idx, gm_used_ring, gm_buffers,
                    gh_sent, gh_used_log, regVars, gqVars >>

GqFrame ==
    UNCHANGED << uartVars, gicVars, vqVars, runVars, memVars, blVars, khVars, ldVars,
                 giVars >>

GetNextRequest == get_next_request(VIRTIO_CONSOLE_QUEUE_TX) /\ GqFrame

AvailPublish ==
    \E head \in 1..MaxNum : avail_publish(VIRTIO_CONSOLE_QUEUE_TX, head) /\ GqFrame

AvailNext == GetNextRequest \/ AvailPublish

\* A queue of any size whose counters stand at the start or shortly before
\* the 16-bit wrap.
AvailStarts == {0, U16 - 2, U16 - 1}

AvailInit ==
    /\ UartIdle
    /\ VqIdle
    /\ RunIdle
    /\ AuxIdle
    /\ RegistryInit
    /\ ConsoleInit
    /\ \E num \in 0..MaxNum, start \in AvailStarts :
          /\ TransportInit(TransportReady(VIRTIO_CONSOLE_QUEUE_TX, num, TRUE, start))
          /\ GuestMemInit(VIRTIO_CONSOLE_QUEUE_TX,
                          [i \in CDescSlots |->
                              [flags |-> 0, next |-> 0, len |-> 0, addr |-> "ram"]],
                          start)

SpecAvail == AvailInit /\ [][AvailNext]_vars

(***************************************************************************)
(* Properties of the UART interrupt line.                                  *)
(***************************************************************************)
MaskedPending == BitAnd(uart_ris, uart_imsc) # 0

LineOps == {"read_dr", "write_icr", "write_imsc", "inject"}

\* C1: with a GIC attached and finalized, after every DR read, ICR write,
\* IMSC write and inject_input, reached in any order from any reachable
\* state, _irq_asserted equals (RIS & IMSC # 0) and the level of the last
\* inject_irq on the UART IRQ equals that value (no call yet counts as
\* deasserted).
C1_LineCoherent ==
    (uart_gic /\ gic_finalized /\ uart_op \in LineOps) =>
        /\ uart_irq_asserted = MaskedPending
        /\ (gic_line = "assert") = MaskedPending

\* The part of C1 that the code keeps: the flag follows the masked status.
C1_FlagCoherent ==
    (uart_gic /\ gic_finalized /\ uart_op \in LineOps) =>
        uart_irq_asserted = MaskedPending

\* A step that is an inject_input of n >= 1 bytes.
IsInject == uart_op' = "inject" /\ Len(uart_rx_buffer') > Len(uart_rx_buffer)

\* A step that is a DR read popping a byte.
IsPop == uart_op' = "read_dr" /\ Len(uart_rx_buffer') < Len(uart_rx_buffer)

\* C10 (a): with IMSC = 0x10 and an empty FIFO, injecting n >= 1 bytes makes
\* exactly one assert call.
C10_InjectOnce ==
    (IsInject /\ uart_imsc = INT_RX /\ uart_rx_buffer = << >>) =>
        uart_calls' = << TRUE >>

\* C10 (b): while the line is asserted under IMSC = 0x10, a DR read that
\* leaves bytes in the FIFO makes no GIC call and the read that empties it
\* makes exactly one deassert call.
C10_ReadEdges ==
    (IsPop /\ uart_imsc = INT_RX /\ uart_irq_asserted) =>
        IF Len(uart_rx_buffer) > 1 THEN uart_calls' = << >>
        ELSE uart_calls' = << FALSE >>

\* C10 (c): a GIC call happens only when the masked condition changes, at
\* most once per operation, and the calls alternate assert, deassert, ...
\* starting with assert.
C10_Alternate ==
    (vars' # vars /\ uart_calls' # << >>) =>
        /\ Len(uart_calls') = 1
        /\ MaskedPending' # MaskedPending
        /\ uart_calls'[1] = MaskedPending'
        /\ uart_calls'[1] = (gic_line \in {"none", "deassert"})

\* C10: the UART drives an edge only on a change of the masked condition.
C10_EdgesOnly == [][C10_InjectOnce /\ C10_ReadEdges /\ C10_Alternate]_vars

\* C10's case: three bytes were injected under IMSC = 0x10 and the read
\* that emptied the FIFO has just deasserted the line.
C10_Witness ==
    /\ uart_op = "read_dr"
    /\ uart_imsc = INT_RX
    /\ uart_rx_buffer = << >>
    /\ uart_calls = << FALSE >>
    /\ gic_line = "deassert"
    /\ uart_read_value = 98

(***************************************************************************)
(* Properties of the virtqueue.                                            *)
(***************************************************************************)
PutInProgress == pu_pc \in {"w_id", "w_len", "w_idx"}

\* Completions published so far and put_used calls started so far, counted
\* without the 16-bit wrap of used.idx.
AbsPublished == vq_start + Len(pu_log) - (IF PutInProgress THEN 1 ELSE 0)

AbsStarted == vq_start + Len(pu_log)

\* The pair passed to put_used for position p, and the slot it was put in.
LogAt(p) == IF p >= vq_start THEN pu_log[p - vq_start + 1] ELSE ZeroEntry

SlotOf(p) == (p % U16) % vq_num

\* Every pair ever passed to put_used for a position stored in slot j.
PairsFor(j) ==
    { pu_log[i] : i \in { n \in 1..Len(pu_log) : SlotOf(vq_start + n - 1) = j } }
        \cup (IF j < vq_start THEN {ZeroEntry} ELSE {})

C2_Window ==
    (vq_num > 0 /\ (U16 % vq_num = 0 \/ AbsStarted <= U16)) =>
        \A d \in 1..vq_num :
            (AbsPublished - d >= 0 /\ (d < vq_num \/ ~PutInProgress)) =>
                vq_used_ring[SlotOf(AbsPublished - d)] = LogAt(AbsPublished - d)

\* Within put_used the stores of id and len precede the store of used.idx.
C2_StoresFirst ==
    vq_used_idx' # vq_used_idx =>
        vq_used_ring[pu_used_idx % vq_num] = [id |-> pu_id, len |-> pu_len]

C3_ChainSafe ==
    /\ fc_pc = "done" => Len(fc_chain) <= vq_num
    /\ \A i \in fc_reads : i < vq_num

\* C3's case: a chain that uses every descriptor of a queue of size 2 was
\* returned.
C3_Witness ==
    /\ fc_pc = "done"
    /\ vq_num = 2
    /\ Len(fc_chain) = 2
    /\ fc_reads = {0, 1}

\* A walk that stopped at a link leaving the table.
C3_WitnessIndex ==
    /\ fc_pc = "error"
    /\ fc_error = "index"
    /\ fc_idx >= vq_num
    /\ fc_chain # << >>

(***************************************************************************)
(* Properties of the runner.                                               *)
(***************************************************************************)
\* A step that creates a vCPU, and a step that issues KVM_RUN.
VcpuCreated == rn_vcpus' > rn_vcpus

VcpuRunIssued == AtVcpuRun /\ rn_step' = "vcpu_run"

\* C4: in every sequence of VMRunner operations (construction, create_vcpu
\* and run, each any number of times), the GIC create precedes every vCPU
\* creation, every vCPU creation precedes the GIC finalize, and the GIC
\* finalize precedes the first vcpu.run().
C4_GicOrder ==
    [][ /\ VcpuCreated => (gic_present => gic_created /\ ~gic_finalized)
        /\ VcpuRunIssued => (gic_present => gic_finalized) ]_vars

\* C5: GIC.finalize called while no vCPU exists fails with an ordering error
\* and does not issue the INIT attribute; creating a vCPU after the GIC was
\* finalized fails with an ordering error and creates no vCPU.
C5_BadOrdering ==
    /\ (rn_step = "gic_finalize" /\ rn_vcpus = 0) =>
           (rn_result = "BadOrdering" /\ ~gic_init_issued)
    /\ (rn_step = "create_vcpu" /\ gic_finalized) => rn_result = "BadOrdering"
    /\ gic_finalized => rn_vcpus = gic_init_vcpus

\* The loop was left by this step with exception `exc` ("none": a return).
LeftWith(exc) ==
    IF rn_pc' = "idle"
    THEN rn_result' = (IF exc = "none" THEN "returned" ELSE exc)
    ELSE rn_pc' \in {"term_exit", "n_finally"} /\ rn_exc' = exc

DispatchStep == rn_pc = "dispatch" /\ rn_step' = "dispatch"

\* The dispatch policy of C6 for the exits that end the loop.
C6_Terminating ==
    DispatchStep =>
        CASE rn_exit_reason = KVM_EXIT_HLT -> LeftWith("none") /\ st_hlt'
          [] rn_exit_reason = KVM_EXIT_SYSTEM_EVENT -> LeftWith("none") /\ ~st_hlt'
          [] rn_exit_reason \in {KVM_EXIT_INTERNAL_ERROR, KVM_EXIT_FAIL_ENTRY} ->
                rn_dumped' /\ LeftWith("RunnerError")
          [] rn_exit_reason = KVM_EXIT_MMIO -> TRUE
          [] OTHER -> LeftWith("none")

\* The dispatch policy of C6 for MMIO: dispatched, and the loop continues.
C6_MmioContinues ==
    (DispatchStep /\ rn_exit_reason = KVM_EXIT_MMIO) =>
        /\ mm_result' # << >>
        /\ rn_pc' = "loop_top"
        /\ rn_i' = rn_i + 1

\* After a terminating exit no further vcpu.run() is issued.
C6_NoRunAfter == VcpuRunIssued => st_exit_reason \in {"None", "MMIO"}

\* The returned hlt is true iff the last exit was HLT.
C6_Hlt ==
    (rn_pc # "idle" /\ rn_pc' = "idle" /\ rn_result' = "returned") =>
        (st_hlt' <=> st_exit_reason' = "HLT")

\* C6: the run loop applies the exit dispatch policy to every exit: HLT ends
\* the loop with hlt = true, SYSTEM_EVENT ends it with hlt = false,
\* INTERNAL_ERROR and FAIL_ENTRY dump registers and abort with a fatal
\* error, MMIO is dispatched and the loop continues, any other exit ends the
\* loop; after a terminating exit no vcpu.run() is issued, and hlt is true
\* iff the last exit was HLT.
C6_DispatchPolicy ==
    [][C6_Terminating /\ C6_MmioContinues /\ C6_NoRunAfter /\ C6_Hlt]_vars

\* The parts of C6 that do not depend on the MMIO write-back.
C6_Rest == [][C6_Terminating /\ C6_NoRunAfter /\ C6_Hlt]_vars

\* C7: for every MMIO read exit, before the next vcpu.run() the data bytes
\* [0, len) of the exit region hold the little-endian encoding of the value
\* the registry returned (0 when no device claims the address); for a write
\* exit the data bytes are unmodified and the device received the
\* little-endian value of the first len data bytes.
C7_MmioData ==
    (AtVcpuRun /\ mm_open /\ mm_result # << >>) =>
        IF mm_at_exit.is_write
        THEN /\ kvm_mmio.data = mm_at_exit.data
             /\ find_device(mm_at_exit.phys_addr) = "uart" =>
                    mm_dev_value = << from_bytes_little(get_mmio_data(mm_at_exit)) >>
        ELSE /\ to_bytes_fits(mm_result[1], mm_at_exit.len)
             /\ get_mmio_data(kvm_mmio) = to_bytes_little(mm_result[1], mm_at_exit.len)
             /\ find_device(mm_at_exit.phys_addr) = "none" => mm_result[1] = 0

\* C7 within one run(): the exits that the loop survives.
C7_WithinRun ==
    (AtVcpuRun /\ mm_open /\ mm_result # << >> /\ rn_i > 0) =>
        IF mm_at_exit.is_write
        THEN kvm_mmio.data = mm_at_exit.data
        ELSE get_mmio_data(kvm_mmio) = to_bytes_little(mm_result[1], mm_at_exit.len)

\* How an interactive run() may end while a typed byte is still unread: by
\* anything but the AttributeError of a missing method.
OtherEnds == {"returned", "RunnerError", "VCPUError", "OverflowError", "SystemExit",
              "termios.error"}

\* C8: in interactive mode with the timer firing, a byte that becomes
\* readable on stdin reaches the UART RX FIFO: the loop returns from
\* vcpu.run(), polls stdin and injects it (here without the time bound:
\* eventually, unless the run ends first on a guest exit or a host error).
C8_ByteDelivered ==
    (InteractiveMode /\ rn_pc \in {"loop_top", "clear_ie"} /\ stdin_buf # << >>)
        ~> (stdin_buf = << >> \/ (rn_pc = "idle" /\ rn_result \in OtherEnds))

\* C9: every way run(interactive=True) ends leaves the terminal with its
\* original attributes, the interval timer disabled and the SIGALRM handler
\* that was installed before run() reinstated.
C9_Restored ==
    [][ (rn_pc # "idle" /\ rn_pc' = "idle" /\ rn_interactive) =>
           /\ term_attrs' = rn_attrs_before
           /\ sig_timer' = "off"
           /\ sig_handler' = rn_saved_handler ]_vars

\* C9 for the ends that no signal handler caused.
C9_Unsignalled ==
    [][ (rn_pc # "idle" /\ rn_pc' = "idle" /\ rn_interactive
            /\ rn_result' \notin {"AttributeError", "SystemExit"}) =>
           /\ term_attrs' = rn_attrs_before
           /\ sig_timer' = "off"
           /\ sig_handler' = rn_saved_handler ]_vars

(***************************************************************************)
(* Properties of the virtio console's transmit queue.                      *)
(***************************************************************************)
TxTable == gm_desc[VIRTIO_CONSOLE_QUEUE_TX]
TxNum == vm_queues[VIRTIO_CONSOLE_QUEUE_TX].num
TxReady == vm_queues[VIRTIO_CONSOLE_QUEUE_TX].ready

\* The chain of the request with this head is well formed and every
\* read-only buffer of it lies in RAM.
TxRequestOk(head) ==
    /\ follow_chain(TxTable, TxNum, head).error = "none"
    /\ tx_collect(TxTable, follow_chain(TxTable, TxNum, head).chain, 1, << >>).error
          = "none"

\* The contents of the read-only buffers of a request, in chain order.
TxPayload(head) ==
    tx_collect(TxTable, follow_chain(TxTable, TxNum, head).chain, 1, << >>).data

\* What the sink is owed for a sequence of published requests: one piece per
\* request that carries data, in publication order.
RECURSIVE TxExpected(_)
TxExpected(heads) ==
    IF heads = << >> THEN << >>
    ELSE IF TxPayload(Head(heads)) = << >>
         THEN TxExpected(Tail(heads))
         ELSE << TxPayload(Head(heads)) >> \o TxExpected(Tail(heads))

IsPrefix(s, t) == Len(s) <= Len(t) /\ SubSeq(t, 1, Len(s)) = s

TxAllOk ==
    /\ TxReady
    /\ TxNum > 0
    /\ \A i \in 1..Len(gh_published) : TxRequestOk(gh_published[i])

\* C11: on a ready TX queue whose published requests are all well formed,
\* the pieces the output sink received are the payloads of the published
\* requests in available-ring order, each at most once and each as one
\* piece: the output is always a prefix of what the publications call for.
C11_EmittedOnce == TxAllOk => IsPrefix(vc_output, TxExpected(gh_published))

\* C11, completeness: when a TX notify returns, every published request has
\* been emitted.
C11_AllEmitted ==
    [][(TxAllOk /\ vc_pc = "tx_loop" /\ vc_pc' = "idle" /\ vc_error' = "none")
          => vc_output' = TxExpected(gh_published)]_vars

\* C12: a TX notify that processed no request leaves the interrupt status
\* unchanged and does not call the IRQ callback.
C12_IrqOnlyAfterWork ==
    [][(vc_pc = "tx_loop" /\ vc_pc' = "idle" /\ vc_error' = "none" /\ vc_iters = 0)
          => (vm_irq_calls' = 0 /\ vm_interrupt_status' = vm_interrupt_status)]_vars

\* C12, the other direction: a TX notify that processed a request sets
\* USED_RING and calls the IRQ callback.
C12_IrqAfterWork ==
    [][(vc_pc = "tx_loop" /\ vc_pc' = "idle" /\ vc_error' = "none" /\ vc_iters > 0)
          => (vm_irq_calls' = 1
              /\ BitAnd(vm_interrupt_status', VIRTIO_INT_USED_RING) # 0)]_vars

\* C15: after a virtqueue integrity error (the ValueError of follow_chain)
\* the status register has NEEDS_RESET set and the run loop is still going.
C15_NeedsReset ==
    vc_error = "ValueError"
      => (BitAnd(vm_status, VIRTIO_STATUS_DEVICE_NEEDS_RESET) # 0 /\ vc_loop)

(***************************************************************************)
(* Properties of the virtio console's receive queue.                       *)
(***************************************************************************)
RxTable == gm_desc[VIRTIO_CONSOLE_QUEUE_RX]
RxNum == vm_queues[VIRTIO_CONSOLE_QUEUE_RX].num

\* C13: every RX chain the device consumed has a used entry: the requests
\* taken from the available ring are as many as the used entries published.
C13_UsedPerChain ==
    RxNum > 0 => vm_queues[VIRTIO_CONSOLE_QUEUE_RX].last_avail_idx = Len(gh_used_log)

\* C13, the writes: the device writes only into descriptors with the WRITE
\* flag and at most len bytes into each, and a used entry carries the head
\* and the total written into its chain.
C13_WritesBounded ==
    /\ \A i \in 1..Len(gm_buffers) :
          /\ is_write(RxTable[gm_buffers[i].desc])
          /\ Len(gm_buffers[i].data) <= RxTable[gm_buffers[i].desc].len
    /\ \A i \in 1..Len(gh_used_log) :
          /\ gh_used_log[i].id = gh_published[i]
          /\ gh_used_log[i].len = Len(gh_used_log[i].data)

\* C14: the bytes written into guest RX buffers, in used-ring order,
\* followed by the bytes still in the device's input buffer, are the
\* concatenation of all send_input data.
C14_NoByteLost == WrittenBytes(gh_used_log) \o vc_input_buffer = gh_sent

(***************************************************************************)
(* Properties of the virtio-MMIO transport registers.                      *)
(***************************************************************************)
\* The step is the write of value to the register at offset.
VmWrote(offset, value) ==
    vm_ops' = vm_ops + 1 /\ vm_op' = << "write", offset, value >>

\* C16: a write of 0 to STATUS resets the device: afterwards the status, the
\* interrupt status, the feature selectors, the driver features and the queue
\* selector are 0, every queue has ready = false, num = 0, its three ring
\* addresses 0 and last_avail_idx 0, and STATUS, INTERRUPT_STATUS and
\* QUEUE_READY read 0.
C16_StatusZeroResets ==
    [][VmWrote(VIRTIO_MMIO_STATUS, 0) =>
          /\ vm_status' = 0
          /\ vm_interrupt_status' = 0
          /\ vm_device_features_sel' = 0
          /\ vm_driver_features_sel' = 0
          /\ vm_driver_features' = Word64(0, 0)
          /\ vm_queue_sel' = 0
          /\ \A q \in QueueIds :
                /\ ~vm_queues'[q].ready
                /\ vm_queues'[q].num = 0
                /\ vm_queues'[q].desc_addr = Word64(0, 0)
                /\ vm_queues'[q].avail_addr = Word64(0, 0)
                /\ vm_queues'[q].used_addr = Word64(0, 0)
                /\ vm_queues'[q].last_avail_idx = 0
                /\ vm_read_result([Transport' EXCEPT !.queue_sel = q],
                                  VIRTIO_MMIO_QUEUE_READY) = 0
          /\ vm_read_result(Transport', VIRTIO_MMIO_STATUS) = 0
          /\ vm_read_result(Transport', VIRTIO_MMIO_INTERRUPT_STATUS) = 0]_vars

\* C16's case: the device was reset by a STATUS write of 0 after another
\* register access.
C16_Witness ==
    /\ vm_op = << "write", VIRTIO_MMIO_STATUS, 0 >>
    /\ vm_ops = MaxRegOps
    /\ Transport = TransportFresh

StatusHas(bit) == BitAnd(vm_status, bit) # 0

\* C17: the status register never holds a later stage's bit without all
\* earlier stages' bits.
C17_StagesInOrder ==
    /\ StatusHas(VIRTIO_STATUS_DRIVER) => StatusHas(VIRTIO_STATUS_ACKNOWLEDGE)
    /\ StatusHas(VIRTIO_STATUS_FEATURES_OK) => StatusHas(VIRTIO_STATUS_DRIVER)
    /\ StatusHas(VIRTIO_STATUS_DRIVER_OK) => StatusHas(VIRTIO_STATUS_FEATURES_OK)

\* C17, the stored value: a non-zero STATUS write is what STATUS then reads,
\* so the driver's last step of the initialization leaves all four bits.
C17_StatusStored ==
    [][\A value \in VmWriteValues(VIRTIO_MMIO_STATUS) \ {0} :
          VmWrote(VIRTIO_MMIO_STATUS, value) =>
             vm_read_result(Transport', VIRTIO_MMIO_STATUS) = value]_vars

IntReasons == {VIRTIO_INT_USED_RING, VIRTIO_INT_CONFIG_CHANGE}

\* C18: INTERRUPT_STATUS reads the pending reasons; a write of v to
\* INTERRUPT_ACK clears exactly the bits set in v and changes nothing else
\* of the transport or its queues; a pending bit is cleared only by such an
\* acknowledge or by a reset.
C18_AckExact ==
    [][/\ (vm_ops' = vm_ops + 1
           /\ vm_op' = << "read", VIRTIO_MMIO_INTERRUPT_STATUS, 0 >>)
             => vm_read_value' = vm_interrupt_status
       /\ \A v \in VmWriteValues(VIRTIO_MMIO_INTERRUPT_ACK) :
             VmWrote(VIRTIO_MMIO_INTERRUPT_ACK, v) =>
                /\ \A b \in IntReasons :
                      BitAnd(vm_interrupt_status', b) # 0
                        <=> (BitAnd(vm_interrupt_status, b) # 0 /\ BitAnd(v, b) = 0)
                /\ UNCHANGED << vm_status, vm_device_features_sel,
                                vm_driver_features_sel, vm_driver_features,
                                vm_queue_sel, vm_queues >>
       /\ \A b \in IntReasons :
             (BitAnd(vm_interrupt_status, b) # 0 /\ BitAnd(vm_interrupt_status', b) = 0)
                => \/ VmWrote(VIRTIO_MMIO_STATUS, 0)
                   \/ \E v \in VmWriteValues(VIRTIO_MMIO_INTERRUPT_ACK) :
                         BitAnd(v, b) # 0 /\ VmWrote(VIRTIO_MMIO_INTERRUPT_ACK, v)]_vars

\* C18's case: of two pending reasons the guest acknowledged USED_RING only,
\* and CONFIG_CHANGE is still pending.
C18_Witness ==
    /\ vm_op = << "write", VIRTIO_MMIO_INTERRUPT_ACK, VIRTIO_INT_USED_RING >>
    /\ vm_interrupt_status = VIRTIO_INT_CONFIG_CHANGE

(***************************************************************************)
(* Properties of the device registry.                                      *)
(***************************************************************************)
Addresses == 0..(MaxBase + MaxSize)

\* Two regions share a byte.
Intersects(a, b) == \E x \in Addresses : contains(a, x) /\ contains(b, x)

\* No two registered regions share a byte: an address has at most one device.
Disjoint(devices) ==
    /\ \A i, j \in 1..Len(devices) : i # j => ~Intersects(devices[i], devices[j])
    /\ \A x \in Addresses :
          Cardinality({ i \in 1..Len(devices) : contains(devices[i], x) }) <= 1

\* C19: after every register call the registered regions are pairwise
\* disjoint; a call whose region intersects a registered one fails with the
\* overlap error and leaves the registry as it was, and a call that succeeds
\* appends its device.
C19_NoOverlap ==
    [][/\ Disjoint(reg_devices')
       /\ (\E i \in 1..Len(reg_devices) : Intersects(reg_result'[2], reg_devices[i]))
             => (reg_result'[1] = "ValueError" /\ reg_devices' = reg_devices)
       /\ reg_result'[1] = "ok" => reg_devices' = Append(reg_devices, reg_result'[2])
       /\ reg_result'[1] = "ValueError" => reg_devices' = reg_devices]_vars

\* C19's case: with two devices registered, a third whose region shares a
\* byte with one of them was rejected.
C19_Witness ==
    /\ Len(reg_devices) = 2
    /\ reg_result[1] = "ValueError"
    /\ \E i \in 1..Len(reg_devices) : Intersects(reg_result[2], reg_devices[i])
    /\ \A i \in 1..Len(reg_devices) : reg_result[2] # reg_devices[i]

(***************************************************************************)
(* MMIO accesses no device claims.                                         *)
(***************************************************************************)
\* The address lies in no registered region.
Unmapped(address) ==
    ~(dev_uart /\ UART_BASE <= address /\ address < UART_BASE + UART_SIZE)

\* C20: the dispatch of an MMIO exit whose address lies in no registered
\* region calls no device's read or write and changes no device state, gets
\* data 0 flagged unhandled from the registry, gives the guest zero bytes on
\* a read and drops the value on a write, raises nothing, and leaves the
\* loop at its top, where the next vcpu.run() is issued while the exit
\* budget lasts.
C20_UnmappedNonFatal ==
    [][(DispatchStep /\ rn_exit_reason = KVM_EXIT_MMIO /\ Unmapped(kvm_mmio.phys_addr))
          => /\ UNCHANGED << uartVars, gicVars, devVars >>
             /\ mm_result' = << 0, FALSE >>
             /\ mm_dev_value' = << >>
             /\ IF kvm_mmio.is_write
                THEN kvm_mmio' = kvm_mmio
                ELSE /\ get_mmio_data(kvm_mmio') = [i \in 1..kvm_mmio.len |-> 0]
                     /\ kvm_mmio'.phys_addr = kvm_mmio.phys_addr
             /\ rn_pc' = "loop_top"
             /\ rn_exc' = rn_exc
             /\ rn_result' = rn_result
             /\ rn_i' < rn_max_exits => AtVcpuRun']_vars

\* C20's case: with the UART registered, a read the UART does not claim was
\* dispatched, zero went back to the guest and the loop is at its top with
\* exits left to run.
C20_Witness ==
    /\ rn_step = "dispatch"
    /\ dev_uart
    /\ mm_open
    /\ ~kvm_mmio.is_write
    /\ Unmapped(kvm_mmio.phys_addr)
    /\ mm_result = << 0, FALSE >>
    /\ mm_at_exit.data # Zero8
    /\ get_mmio_data(kvm_mmio) = [i \in 1..kvm_mmio.len |-> 0]
    /\ AtVcpuRun

(***************************************************************************)
(* Properties of guest memory.                                             *)
(***************************************************************************)
\* The access [guest_address, guest_address + n) lies inside one slot.
InsideOneSlot(slots, guest_address, n) ==
    \E i \in 1..Len(slots) :
       /\ slots[i].guest_address <= guest_address
       /\ guest_address < slots[i].guest_address + slots[i].size
       /\ guest_address + n <= slots[i].guest_address + slots[i].size

\* The step is this memory-manager call.
MemDid(op) == mem_ops' = mem_ops + 1 /\ mem_op' = op

\* Guest addresses looked at around the page boundaries.
GuestProbes == UNION { {a - 1, a, a + 1} : a \in AccessAddrs } \ {-1}

\* C21: a write whose range lies inside one slot succeeds, a read of the
\* same range then returns the bytes written, and no guest byte and no host
\* byte outside the range changes.
C21_RoundTrip ==
    [][\A guest_address \in AccessAddrs, data \in Datas :
          (MemDid(<< "write", guest_address, data >>)
           /\ InsideOneSlot(mem_slots, guest_address, Len(data)))
             => /\ mem_result' = << "ok" >>
                /\ \A junk \in Junk :
                      read_outcome(mem_slots', mem_maps', mem_store', guest_address,
                                   Len(data), junk) = << "ok", data >>
                /\ \A g \in GuestProbes :
                      (g < guest_address \/ g >= guest_address + Len(data))
                        => read_outcome(mem_slots', mem_maps', mem_store', g, 1, Fault)
                             = read_outcome(mem_slots, mem_maps, mem_store, g, 1, Fault)
                /\ \A a \in DOMAIN mem_store \cup DOMAIN mem_store' :
                      LET h == get_host_address(mem_slots, guest_address) IN
                      (a < h \/ a >= h + Len(data))
                        => host_byte(mem_store', a) = host_byte(mem_store, a)
                /\ mem_foreign' = mem_foreign]_vars

\* C21's case: two bytes written across the page boundary inside a two-page
\* slot were read back.
C21_Witness ==
    /\ mem_op = << "read", PAGE_SIZE - 1, 2 >>
    /\ InsideOneSlot(mem_slots, PAGE_SIZE - 1, 2)
    /\ mem_result = << "ok", << 1, 2 >> >>

\* C22: a read or write whose start is in no slot, or whose range extends
\* past the end of the slot containing its start, fails with the
\* unmapped-address error.
C22_StraddleFails ==
    (mem_op[1] \in {"read", "write"}
     /\ ~InsideOneSlot(mem_slots, mem_op[2],
                       IF mem_op[1] = "read" THEN mem_op[3] ELSE Len(mem_op[3])))
       => mem_result = << "MemoryError" >>

\* C22, the start address: an access that starts in no slot fails and
\* touches no host memory.
C22_UnmappedFails ==
    [][\A guest_address \in AccessAddrs :
          (mem_ops' = mem_ops + 1 /\ mem_op'[1] \in {"read", "write"}
           /\ mem_op'[2] = guest_address
           /\ get_host_address(mem_slots, guest_address) = NoAddress)
             => /\ mem_result' = << "MemoryError" >>
                /\ UNCHANGED << mem_store, mem_foreign, mem_maps, mem_slots >>]_vars

\* C23: add_ram fails with the alignment error when an argument is not a
\* multiple of 4096, with the size error when the size is 0, with the
\* registration error when the host rejects the slot; a failed add_ram
\* leaves the slot list as it was and leaves no mapping of its own behind.
C23_AddRamFailures ==
    [][\A guest_address \in AddRamAddrs, size \in AddRamSizes :
          (mem_ops' = mem_ops + 1 /\ mem_op'[1] = "add_ram"
           /\ mem_op'[2] = guest_address /\ mem_op'[3] = size)
             => /\ (guest_address % 4096 # 0 \/ size % 4096 # 0)
                      => mem_result' = << "MemoryError", "alignment" >>
                /\ (guest_address % 4096 = 0 /\ size = 0)
                      => mem_result' = << "MemoryError", "size" >>
                /\ mem_op'[4] = "rejected"
                      => mem_result' = << "MemoryError", "registration" >>
                /\ mem_result'[1] = "MemoryError"
                      => (mem_slots' = mem_slots /\ mem_maps' = mem_maps
                          /\ mem_store' = mem_store)
                /\ mem_result'[1] = "ok"
                      => (Len(mem_slots') = Len(mem_slots) + 1
                          /\ mem_op'[4] = "accepted")]_vars

\* C23's case: with a slot registered, the host rejected a second, well
\* formed slot.
C23_Witness ==
    /\ mem_op[1] = "add_ram"
    /\ mem_op[4] = "rejected"
    /\ Len(mem_slots) = 1
    /\ mem_maps # {}
    /\ mem_result = << "MemoryError", "registration" >>

(***************************************************************************)
(* A vcpu.run() interrupted by a signal.                                   *)
(***************************************************************************)
\* The step is the loop's call of vcpu.run() with KVM_RUN failing with EINTR,
\* for which VCPU.run returns the sentinel.
SentinelStep ==
    /\ run_returns(EINTR, 0) = -1
    /\ vcpu_run(EINTR, 0, kvm_mmio)

\* C24: a vcpu.run() that returns the -1 sentinel is not an exit: the loop
\* does not count it in stats["exits"] or exit_counts (no statistic changes),
\* dispatches no MMIO and no exit handler for it, changes no device state,
\* raises nothing, and is back at its top for the next iteration.
C24_SentinelNotExit ==
    [][SentinelStep
          => /\ UNCHANGED statVars
             /\ mm_result' = << >>
             /\ mm_dev_value' = << >>
             /\ UNCHANGED << uartVars, gicVars, devVars >>
             /\ rn_pc' = "loop_top"
             /\ rn_i' = rn_i + 1
             /\ rn_exc' = rn_exc
             /\ rn_result' = rn_result
             /\ ~rn_dumped']_vars

\* C24's case: an MMIO exit was counted and dispatched, the next vcpu.run()
\* returned the sentinel, and the loop is at its top with one exit counted
\* after two iterations.
C24_Witness ==
    /\ rn_step = "vcpu_run"
    /\ rn_exit_reason = -1
    /\ st_exits = 1
    /\ st_exit_counts["MMIO"] = 1
    /\ st_exit_counts["UNKNOWN"] = 0
    /\ rn_i = 2
    /\ rn_pc = "loop_top"
    /\ rn_exc = "none"

(***************************************************************************)
(* The order of release at shutdown.                                       *)
(***************************************************************************)
\* The stage of the shutdown order a resource belongs to: run loop, vCPUs
\* (exit region and descriptor), devices (the GIC device handle), memory
\* slots, VM handle, control device.
Stage(r) ==
    CASE r = "loop" -> 1
      [] r \in {"vcpu_run_map", "vcpu_fd"} -> 2
      [] r = "gic_fd" -> 3
      [] r \in {"ram_map", "ram_slot"} -> 4
      [] r = "vm_fd" -> 5
      [] r = "kvm_fd" -> 6

\* C25: at shutdown resources are released in the order run loop, vCPUs,
\* devices (with the GIC device handle), memory slots, VM handle, control
\* device: the releases made so far are in this order, and nothing of an
\* earlier stage is still held once something of a later stage is released.
C25_ReleaseOrder ==
    /\ \A i, j \in 1..Len(bl_log) : i < j => Stage(bl_log[i]) <= Stage(bl_log[j])
    /\ \A i \in 1..Len(bl_log) : \A r \in bl_open : Stage(r) >= Stage(bl_log[i])

\* The same for the calls whose run() returned normally.
C25_AfterCleanRun ==
    (bl_exc = "none" /\ Len(bl_log) > 0) =>
        \A i \in 1..Len(bl_log) : \A r \in bl_open : Stage(r) >= Stage(bl_log[i])

(***************************************************************************)
(* The result of follow_chain.                                             *)
(***************************************************************************)
\* The descriptor at index i of the table carries the NEXT flag.
HasNext(i) == (vq_desc[i].flags \div VIRTQ_DESC_F_NEXT) % 2 = 1

\* The indices in `chain` are the walk from fc_head through NEXT links, in
\* link order: it starts at head and each index is the next field of the
\* one before it, which carries NEXT.
WalkFromHead(chain) ==
    /\ chain # << >> => chain[1] = fc_head
    /\ \A k \in 1..(Len(chain) - 1) : HasNext(chain[k]) /\ vq_desc[chain[k]].next = chain[k + 1]

\* The index the walk reaches after `chain` is idx.
Reaches(chain, idx) ==
    IF chain = << >> THEN idx = fc_head
    ELSE HasNext(chain[Len(chain)]) /\ vq_desc[chain[Len(chain)]].next = idx

\* All indices of the chain are inside the table and no index occurs twice.
Sound(chain) ==
    /\ \A k \in 1..Len(chain) : chain[k] < vq_num
    /\ \A k, l \in 1..Len(chain) : k # l => chain[k] # chain[l]

\* C26: follow_chain(head) returns the descriptors reached from head through
\* NEXT links, in link order, up to the first one without NEXT, when no
\* index repeats and every index is < num; it raises the cycle error exactly
\* when the walk reaches an index it has visited, the bad-index error
\* exactly when it reaches an index >= num, the too-long error only for a
\* chain longer than num; a call that raises returns nothing.
C26_ChainResult ==
    /\ WalkFromHead(fc_chain) /\ Sound(fc_chain)
    /\ fc_pc = "done" => /\ fc_chain # << >>
                         /\ ~HasNext(fc_chain[Len(fc_chain)])
                         /\ fc_error = "none"
    /\ fc_pc = "error" =>
          /\ Reaches(fc_chain, fc_idx)
          /\ fc_error \in {"cycle", "index", "too long"}
          /\ fc_error = "cycle" <=> \E k \in 1..Len(fc_chain) : fc_chain[k] = fc_idx
          /\ fc_error = "index" <=> fc_idx >= vq_num
          /\ fc_error = "too long" => Len(fc_chain) > vq_num

\* C26's cases: a chain of two descriptors returned in link order from head
\* 1; a walk that came back to its head; a walk that left the table after
\* one descriptor.
C26_Witness ==
    /\ fc_pc = "done"
    /\ fc_head = 1
    /\ fc_chain = << 1, 0 >>

C26_WitnessCycle ==
    /\ fc_pc = "error"
    /\ fc_error = "cycle"
    /\ Len(fc_chain) = 2
    /\ fc_idx = fc_head

C26_WitnessIndex ==
    /\ fc_pc = "error"
    /\ fc_error = "index"
    /\ Len(fc_chain) = 1
    /\ fc_idx = vq_num

(***************************************************************************)
(* The size of a queue.                                                    *)
(***************************************************************************)
\* C27: after any sequence of guest register writes to the transport, every
\* queue's size num is at most 256, the value QUEUE_NUM_MAX reports.
C27_NumBounded ==
    /\ vm_read_result(Transport, VIRTIO_MMIO_QUEUE_NUM_MAX) = VIRTIO_QUEUE_NUM_MAX
    /\ \A q \in QueueIds : vm_queues[q].num <= VIRTIO_QUEUE_NUM_MAX

(***************************************************************************)
(* The kernel image header.                                                *)
(***************************************************************************)
\* load was called on a file that holds a whole header.
Parsed == kh_result # << "none" >> /\ Len(kh_data) >= 64

\* The text_offset the parser is to return for header fields T and F.
ExpectedTextOffset(T, F) ==
    IF T # Zero64 THEN T
    ELSE IF (F[1] \div 8) % 2 = 1 THEN Zero64 ELSE << 0, 8, 0, 0 >>

\* C28: for every 64-byte header with magic 0x644D5241 and fields
\* text_offset = T, image_size = S, flags = F the parser returns exactly
\* (T, S, F), except that for T = 0 the text_offset returned is 0 iff bit 3
\* of F is set and 0x80000 otherwise; any other magic is rejected with the
\* bad-magic error.
C28_HeaderRoundTrip ==
    Parsed =>
        IF kh_fields.magic = << 21057, 25677 >>
        THEN kh_result = << "ok",
                            ExpectedTextOffset(kh_fields.text_offset, kh_fields.flags),
                            kh_fields.image_size, kh_fields.flags >>
        ELSE kh_result = << "KernelError", "magic" >>

\* The same for the headers whose image_size is not 0, and for text_offset,
\* flags and the magic of all headers.
C28_ExceptZeroSize ==
    Parsed =>
        IF kh_fields.magic = << 21057, 25677 >>
        THEN /\ kh_result[1] = "ok"
             /\ kh_result[2] = ExpectedTextOffset(kh_fields.text_offset, kh_fields.flags)
             /\ kh_fields.image_size # Zero64 => kh_result[3] = kh_fields.image_size
             /\ kh_result[4] = kh_fields.flags
        ELSE kh_result = << "KernelError", "magic" >>

(***************************************************************************)
(* The placement of the boot images.                                       *)
(***************************************************************************)
\* The least multiple of 4 KiB that is >= x.
AlignUp4K(x) == CHOOSE y \in x..(x + 4095) : y % 4096 = 0

\* load returned a BootInfo.
Loaded == ld_result[1] = "ok"

KernelEnd == RAM_BASE + ld_args.text_offset + ld_args.kernel_size

InitrdAddr == AlignUp4K(RAM_BASE + 128 * 1024 * 1024)

\* C29: the boot loader places the DTB at align_up(initrd_end, 4 KiB) when
\* an initrd is loaded and at align_up(kernel_end, 4 KiB) when no initrd is
\* given, with kernel_addr = RAM_BASE + text_offset and initrd_addr =
\* align_up(RAM_BASE + 128 MiB, 4 KiB); the BootInfo returned reports these
\* addresses, and the images were written there.
C29_Placement ==
    Loaded =>
        LET info == ld_result[2]
            n == Len(ld_writes) IN
        /\ info.kernel_addr = RAM_BASE + ld_args.text_offset
        /\ ld_writes[1] = << info.kernel_addr, ld_args.kernel_size >>
        /\ ld_writes[n] = << info.dtb_addr, ld_args.dtb_size >>
        /\ IF ld_args.initrd_size = NotGiven
           THEN info.dtb_addr = AlignUp4K(KernelEnd)
           ELSE /\ info.initrd_addr = InitrdAddr
                /\ ld_writes[2] = << InitrdAddr, ld_args.initrd_size >>
                /\ info.dtb_addr = AlignUp4K(InitrdAddr + ld_args.initrd_size)

\* The placement with an initramfs of at least one byte.
C29_WithInitrd ==
    (Loaded /\ ld_args.initrd_size > 0) =>
        LET info == ld_result[2] IN
        /\ info.kernel_addr = RAM_BASE + ld_args.text_offset
        /\ info.initrd_addr = InitrdAddr
        /\ ld_writes = << << info.kernel_addr, ld_args.kernel_size >>,
                          << InitrdAddr, ld_args.initrd_size >>,
                          << info.dtb_addr, ld_args.dtb_size >> >>
        /\ info.dtb_addr = AlignUp4K(InitrdAddr + ld_args.initrd_size)

\* Without an initramfs the DTB goes to the address reserved for one.
C29_NoInitrdAtReserved ==
    (Loaded /\ ld_args.initrd_size = NotGiven) => ld_result[2].dtb_addr = InitrdAddr

\* An empty initramfs is reported at address 0.
C29_EmptyInitrdAtZero ==
    (Loaded /\ ld_args.initrd_size = 0) => ld_result[2].initrd_addr = 0

(***************************************************************************)
(* The encoding of a line transition.                                      *)
(***************************************************************************)
\* inject_irq was called.
Injected == gi_result # "none"

C30_WitnessPpi ==
    /\ gic_finalized
    /\ gi_args = << 27, FALSE >>
    /\ gi_requests = << [irq |-> 33554459, level |-> 0] >>

C30_WitnessNotFinalized ==
    /\ ~gic_finalized
    /\ Injected
    /\ gi_args[1] = 33

(***************************************************************************)
(* The available ring.                                                     *)
(***************************************************************************)
\* The step is a call of get_next_request on the TX queue.
GetStep == gq_calls' = gq_calls + 1

TxLast == vm_queues[VIRTIO_CONSOLE_QUEUE_TX].last_avail_idx

\* What one call does.
C31_Call ==
    GetStep =>
        IF gm_avail_idx[VIRTIO_CONSOLE_QUEUE_TX] = TxLast
        THEN /\ gq_result' = << "None" >>
             /\ UNCHANGED << vioVars, gq_returned >>
        ELSE TxNum > 0 =>
                /\ gq_result' = << "head", gm_avail_ring[VIRTIO_CONSOLE_QUEUE_TX][TxLast % TxNum] >>
                /\ vm_queues'[VIRTIO_CONSOLE_QUEUE_TX].last_avail_idx = TxLast + 1
                /\ UNCHANGED gmVars

\* The heads returned so far are the first heads the guest published, in
\* the order of publication.
ReturnedInOrder ==
    /\ Len(gq_returned) <= Len(gh_published)
    /\ \A i \in 1..Len(gq_returned) : gq_returned[i] = gh_published[i]

\* C31: get_next_request returns None and changes no state when avail.idx
\* equals last_avail_idx; otherwise it returns ring[last_avail_idx mod num]
\* and increments last_avail_idx by exactly one, so that successive calls
\* return the published heads in available-ring order, each exactly once.
C31_GetNextRequest == []ReturnedInOrder /\ [][C31_Call]_vars

\* The single call alone, and the order on a queue that started at 0.
C31_CallAlone == [][C31_Call]_vars

C31_FreshQueueInOrder == gm_used_idx[VIRTIO_CONSOLE_QUEUE_TX] = 0 => ReturnedInOrder

\* C35: last_avail_idx is a 16-bit counter compared with avail.idx modulo
\* 2^16: also when avail.idx wraps from 0xFFFF to 0, get_next_request
\* returns each newly published entry exactly once, and None once every
\* published entry has been returned.
C35_WrapCompare ==
    /\ [](TxLast \in 0..(U16 - 1))
    /\ [][(GetStep /\ Len(gq_returned) = Len(gh_published))
             => (gq_result' = << "None" >> /\ UNCHANGED gq_returned)]_vars

(***************************************************************************)
(* Properties of the used ring under the TX queue.                         *)
(***************************************************************************)
TxUsedIdx == gm_used_idx[VIRTIO_CONSOLE_QUEUE_TX]
TxUsedRing == gm_used_ring[VIRTIO_CONSOLE_QUEUE_TX]

\* A step of _process_tx_queue in which put_used ran.
TxPutStep == vc_pc = "tx_loop" /\ Len(gh_used_log') = Len(gh_used_log) + 1

\* C32, one call: put_used(head, 0) writes {id = head, len = 0} at position
\* used.idx mod num, leaves every other slot alone and advances used.idx by
\* one modulo 2^16.
C32_PutUsed ==
    [][TxPutStep =>
          LET head == gh_used_log'[Len(gh_used_log')].id IN
          /\ head = gm_avail_ring[VIRTIO_CONSOLE_QUEUE_TX][TxLast % TxNum]
          /\ TxUsedRing' = [TxUsedRing EXCEPT ![TxUsedIdx % TxNum] =
                               [id |-> head, len |-> 0]]
          /\ TxUsedIdx' = (TxUsedIdx + 1) % U16]_vars

\* C32, a whole notify: the driver's used.idx and the device's count of
\* requests taken start equal, so whenever no TX notify is in progress
\* used.idx has advanced by the number of requests taken from the available
\* ring.
C32_NotifyAdvance ==
    (vc_pc = "idle" /\ TxNum > 0) => TxUsedIdx = TxLast % U16

\* C32 for the notifies that return: used.idx has advanced by the number of
\* requests taken.
C32_ReturnedAdvance ==
    (vc_pc = "idle" /\ vc_error = "none" /\ TxNum > 0) => TxUsedIdx = TxLast % U16

\* A notify has consumed two requests and returned.
C32_WitnessTwo ==
    /\ vc_pc = "idle"
    /\ vc_error = "none"
    /\ Len(gh_used_log) = 2
    /\ TxNum > 0

(***************************************************************************)
(* Properties of the UART receive FIFO.                                    *)
(***************************************************************************)
\* A step that is a read of DR.
DrRead == uart_op' = "read_dr"

\* The FIFO changes in two ways only: an inject appends its bytes at the
\* tail, a DR read removes the byte at the head and returns it.
FifoStep ==
    \/ uart_rx_buffer' = uart_rx_buffer
    \/ /\ uart_op' = "inject"
       /\ Len(uart_rx_buffer') > Len(uart_rx_buffer)
       /\ SubSeq(uart_rx_buffer', 1, Len(uart_rx_buffer)) = uart_rx_buffer
    \/ /\ DrRead
       /\ uart_rx_buffer # << >>
       /\ uart_rx_buffer' = Tail(uart_rx_buffer)
       /\ uart_read_value' = Head(uart_rx_buffer)

\* A DR read of a non-empty FIFO takes its head and leaves RIS bit 4 set
\* exactly when bytes remain.
DrReadTakes ==
    (DrRead /\ uart_rx_buffer # << >>)
       => /\ uart_read_value' = Head(uart_rx_buffer)
          /\ uart_rx_buffer' = Tail(uart_rx_buffer)
          /\ (BitAnd(uart_ris', INT_RX) # 0) <=> (uart_rx_buffer' # << >>)

\* A DR read of an empty FIFO returns 0, changes no UART state and makes no
\* call on the GIC.
DrReadEmpty ==
    (DrRead /\ uart_rx_buffer = << >>)
       => /\ uart_read_value' = 0
          /\ uart_calls' = << >>
          /\ UNCHANGED << uart_cr, uart_lcr_h, uart_ibrd, uart_fbrd, uart_imsc,
                          uart_ris, uart_rx_buffer, uart_irq_asserted, uart_gic,
                          uart_output, gicVars >>

\* C33: DR reads return the injected bytes in arrival order, each once (the
\* FIFO is only appended to at the tail by inject_input and only popped at
\* the head by a DR read that returns the popped byte); after a DR read
\* that returned a byte RIS bit 4 is set iff the FIFO is non-empty; a DR
\* read on an empty FIFO returns 0, changes no UART state and drives no
\* GIC edge.
C33_DrReads == [][FifoStep /\ DrReadTakes /\ DrReadEmpty]_vars

\* A DR read returned the first of two different bytes and the second is
\* still queued with RIS bit 4 set.
C33_Witness ==
    /\ uart_op = "read_dr"
    /\ uart_read_value = 97
    /\ uart_rx_buffer = << 98 >>
    /\ BitAnd(uart_ris, INT_RX) # 0

\* A DR read returned the last byte: the FIFO is empty and RIS bit 4 clear.
C33_WitnessLast ==
    /\ uart_op = "read_dr"
    /\ uart_read_value = 98
    /\ uart_rx_buffer = << >>
    /\ BitAnd(uart_ris, INT_RX) = 0

C34_BoundOnlyPastWrap ==
    (vc_pc = "tx_loop" /\ has_new_requests(VIRTIO_CONSOLE_QUEUE_TX)
       /\ Len(gh_used_log) >= MaxIters)
      => TxLast >= U16

\* Past the 16-bit range the loop condition stays true whatever the guest
\* memory holds.
C34_PastWrapNeverEnds ==
    TxLast >= U16 => has_new_requests(VIRTIO_CONSOLE_QUEUE_TX)

(***************************************************************************)
(* MMIO reads as the run loop completes them.                              *)
(***************************************************************************)
\* The run loop dispatches a read exit of n bytes on a registered device.
MmioReadDispatch ==
    /\ rn_pc = "dispatch"
    /\ rn_step' = "dispatch"
    /\ rn_exit_reason = KVM_EXIT_MMIO
    /\ ~kvm_mmio.is_write
    /\ kvm_mmio.len \in {1, 2, 4, 8}
    /\ find_device(kvm_mmio.phys_addr) # "none"

\* C36: every MMIO read exit of 1, 2, 4 or 8 bytes on a registered device is
\* completed without error: the loop goes on to its next iteration and the
\* exit region holds n bytes of the value the device returned.
C36_ReadCompletes ==
    [][MmioReadDispatch
         => /\ rn_exc' = "none"
            /\ rn_pc' = "loop_top"
            /\ get_mmio_data(kvm_mmio')
                 = to_bytes_little(mm_result'[1], kvm_mmio.len)]_vars

\* The reads whose value fits the width are completed with the value's
\* little-endian bytes.
C36_FittingReadCompletes ==
    [][(MmioReadDispatch /\ ~handle_mmio_raises)
         => /\ rn_exc' = "none"
            /\ rn_pc' = "loop_top"
            /\ get_mmio_data(kvm_mmio')
                 = to_bytes_little(mm_result'[1], kvm_mmio.len)]_vars

\* A read of a register whose value does not fit the width was dispatched.
C36_WitnessRaised ==
    rn_step = "dispatch" /\ rn_exc = "OverflowError"

(***************************************************************************)
(* The UART interrupt line across reset().                                 *)
(***************************************************************************)
\* C37: reset() keeps the IRQ line coherent: in the state it leaves, the
\* level last driven onto the GIC matches _irq_asserted (false), so a reset
\* under an asserted line has deasserted it.
C37_ResetCoherent ==
    uart_op = "reset" => ((gic_line = "assert") = uart_irq_asserted)

\* C37, the consequence: an inject_input after a reset, with RX interrupts
\* enabled again, produces an assert edge on a line that was low.
C37_AssertAfterReset ==
    [][(IsInject /\ uart_gic /\ MaskedPending' /\ ~uart_irq_asserted)
          => (uart_calls' = << TRUE >> /\ gic_line # "assert")]_vars

\* reset() makes no call on the GIC at all.
C37_ResetSilent ==
    [][uart_op' = "reset" => (uart_calls' = << >> /\ gic_line' = gic_line)]_vars

(***************************************************************************)
(* The timer signal inside the interactive loop.                           *)
(***************************************************************************)
\* C38: a SIGALRM delivered after the stdin poll, before vcpu.run() is
\* entered, is not lost and does no harm: the handler returns, the loop is
\* still in progress at the point where the signal found it, and so goes on
\* to vcpu.run() and to the next poll.
C38_WakeNotLost ==
    [][(InteractiveMode /\ rn_pc = "clear_ie" /\ sigalrm)
          => (rn_exc' = "none" /\ rn_pc' = "clear_ie")]_vars

\* C38, the loop's own part: after the poll the loop clears immediate_exit
\* and enters vcpu.run().
C38_ClearThenRun ==
    [][(InteractiveMode /\ clear_immediate_exit)
          => (rn_exc' = "none" /\ rn_pc' \notin {"term_exit", "i_finally", "idle"})]_vars

\* The interactive loop is left with AttributeError right after a poll
\* whenever it gets there, by the handler or by the loop itself.
C38_LoopEndsAfterPoll ==
    [][(InteractiveMode /\ rn_pc = "clear_ie" /\ rn_pc' # "clear_ie")
          => (rn_pc' = "term_exit" /\ rn_exc' = "AttributeError")]_vars

\* The signal was delivered between the poll and the clearing of the flag.
C38_WitnessSignalAfterPoll ==
    rn_step = "sigalrm" /\ rn_pc = "term_exit" /\ rn_exc = "AttributeError"

(***************************************************************************)
(* The budget and the statistics of the run loop.                          *)
(***************************************************************************)
RECURSIVE SumOver(_, _)
SumOver(counts, names) ==
    IF names = {} THEN 0
    ELSE LET n == CHOOSE x \in names : TRUE IN
         counts[n] + SumOver(counts, names \ {n})

\* sum(stats["exit_counts"].values())
SumCounts == SumOver(st_exit_counts, ExitNames)

InRunLoop == rn_pc \in {"loop_top", "clear_ie", "dispatch"}

\* The calls of vcpu.run() the current run() has made: one per finished
\* iteration, and one for the iteration whose exit is being dispatched.
CallsMade == rn_i + (IF rn_pc = "dispatch" THEN 1 ELSE 0)

\* The statistics at any moment of a run() and after it: exits is the sum
\* of the counts, exit_reason is None exactly when nothing was counted and
\* otherwise a name that was counted; inside the loop the exits counted are
\* at most the calls made, which are at most max_exits.
StatsCoherent ==
    /\ st_exits = SumCounts
    /\ (st_exit_reason = "None") = (st_exits = 0)
    /\ st_exit_reason # "None" => st_exit_counts[st_exit_reason] > 0
    /\ st_exits <= MaxExits
    /\ InRunLoop => (st_exits <= CallsMade /\ CallsMade <= rn_max_exits)

\* One call of vcpu.run(): the budget was not used up, the call uses one
\* unit of it whether it was interrupted or not, and an exit it delivers is
\* the one exit_reason names.
RunCallStep ==
    VcpuRun =>
        /\ CallsMade < rn_max_exits
        /\ InRunLoop' => CallsMade' = CallsMade + 1
        /\ st_exits' \in {st_exits, st_exits + 1}
        /\ st_exits' = st_exits + 1 =>
              /\ rn_exit_reason' # -1
              /\ st_exit_reason' = get_exit_reason_name(rn_exit_reason')
        /\ st_exits' = st_exits => UNCHANGED statVars

\* No other step of run() changes the count of calls or the statistics
\* (the HLT flag apart).
OtherStep ==
    (~VcpuRun /\ rn_pc # "idle")
       => /\ UNCHANGED << st_exits, st_exit_reason, st_exit_counts >>
          /\ (InRunLoop /\ InRunLoop') => CallsMade' = CallsMade

\* A run() in progress ends.
RunTerminates == (rn_pc # "idle") ~> (rn_pc = "idle")

C39_WitnessFull ==
    /\ rn_result = "returned"
    /\ st_exits = MaxExits
    /\ st_exit_counts["MMIO"] = MaxExits

(***************************************************************************)
(* The link between the registry's UART and the runner's GIC.              *)
(***************************************************************************)
\* C40: whenever the run loop dispatches an exit, a PL011 UART present in
\* the runner's device registry has the runner's GIC attached and is the
\* UART interactive input goes to, also when it was registered after the
\* runner was constructed.
C40_UartLinked ==
    (rn_pc = "dispatch" /\ dev_uart /\ gic_present) => (uart_gic /\ rn_uart)

\* The loop dispatches an exit with a UART in the registry that was
\* registered after construction.
C40_WitnessLate ==
    rn_pc = "dispatch" /\ dev_uart /\ gic_present /\ ~uart_gic

====
